---- MODULE Spec2Model ----
(***************************************************************************)
(* A model of jackc/structify (src/structify.go, lines 1-437): the parser  *)
(* that normalizes a loosely typed source value and assigns it, directed   *)
(* by the destination's type, into a typed destination.                    *)
(*                                                                         *)
(* Go strings are sequences of one-character strings, so that              *)
(* normalizeFieldName, strconv.ParseInt and the formatters work on the     *)
(* characters as the code does.  A float64 is the decimal <<m, e>> standing *)
(* for m / 10^e with m not divisible by 10 unless e = 0; the model's floats *)
(* have few digits, where distinct decimals are distinct float64 values.   *)
(* A negative e is kept for the floats beyond the int64 range, at least    *)
(* 10^19 in magnitude.                                                     *)
(* Integers of the model are small; widths below 32 bits keep their exact  *)
(* range.                                                                  *)
(***************************************************************************)
EXTENDS Integers, Sequences, FiniteSets, TLC

VARIABLES typeScannerFuncs, nregs, call, stack

vars == <<typeScannerFuncs, nregs, call, stack>>

(***************************************************************************)
(* Bounds of the model.                                                    *)
(***************************************************************************)
MaxRegs == 2
MaxKeys == 2
MaxLen == 2
MaxDepth == 8

(***************************************************************************)
(* The state: the registry of each parser, the number of registrations so  *)
(* far, and the Parse call that has returned last (call.done), with its    *)
(* arguments, the destination's contents before and after, and its result. *)
(* stack holds the calls of parseNormalizedSource that have not returned,  *)
(* when a Parse call is followed call by call; it is empty otherwise.      *)
(***************************************************************************)
\* a source value as the caller passes it: k is its Go type, v what it holds
Raw(k, v) == [k |-> k, v |-> v]
RawNil == Raw("nil", 0)

\* a type: the named or composite type b behind so many pointer indirections
T(b) == [stars |-> 0, base |-> b]
NoType == T("")

NoCall ==
    [done |-> FALSE, p |-> "p1", src |-> RawNil, h |-> NoType, held |-> FALSE,
     before |-> <<>>, ord |-> <<>>, err |-> <<>>, val |-> <<>>, log |-> <<>>,
     panic |-> FALSE]

NilRegistry == [isnil |-> TRUE, m |-> <<>>]

(***************************************************************************)
(* Characters and strings.                                                 *)
(***************************************************************************)
Uppers == <<"A", "B", "C", "D", "E", "F", "G", "H", "I", "J", "K", "L", "M",
            "N", "O", "P", "Q", "R", "S", "T", "U", "V", "W", "X", "Y", "Z">>
Lowers == <<"a", "b", "c", "d", "e", "f", "g", "h", "i", "j", "k", "l", "m",
            "n", "o", "p", "q", "r", "s", "t", "u", "v", "w", "x", "y", "z">>
Digits == <<"0", "1", "2", "3", "4", "5", "6", "7", "8", "9">>

Range(s) == {s[i] : i \in DOMAIN s}

LetterSet == Range(Uppers) \cup Range(Lowers)
DigitSet == Range(Digits)
LowerOf == [c \in Range(Uppers) |-> Lowers[CHOOSE i \in DOMAIN Uppers : Uppers[i] = c]]

\* unicode.IsLetter, unicode.IsDigit and unicode.ToLower on the model's characters
IsLetter(c) == c \in LetterSet
IsDigit(c) == c \in DigitSet
ToLower(c) == IF c \in DOMAIN LowerOf THEN LowerOf[c] ELSE c

\* strings.Map with a mapping that drops a rune by returning -1
RECURSIVE MapRunes(_, _)
MapRunes(s, i) ==
    IF i > Len(s) THEN <<>>
    ELSE LET c == s[i]
             r == IF IsLetter(c) THEN <<ToLower(c)>>
                  ELSE IF IsDigit(c) THEN <<c>>
                  ELSE <<>>
         IN r \o MapRunes(s, i + 1)

\* a normalization that keeps the case of the letters
NormalizeNoLower(s) == SelectSeq(s, LAMBDA c : IsLetter(c) \/ IsDigit(c))

normalizeFieldName(s) == MapRunes(s, 1)

DigitValOf == [c \in DigitSet |-> (CHOOSE i \in DOMAIN Digits : Digits[i] = c) - 1]
DigitVal(c) == DigitValOf[c]

RECURSIVE DigitsValue(_)
DigitsValue(ds) ==
    IF ds = <<>> THEN 0
    ELSE 10 * DigitsValue(SubSeq(ds, 1, Len(ds) - 1)) + DigitVal(ds[Len(ds)])

RECURSIVE NatDigits(_)
NatDigits(n) ==
    IF n < 10 THEN <<Digits[n + 1]>>
    ELSE NatDigits(n \div 10) \o <<Digits[(n % 10) + 1]>>

\* strconv.FormatInt(n, 10)
FormatInt(n) == IF n < 0 THEN <<"-">> \o NatDigits(0 - n) ELSE NatDigits(n)

RECURSIVE Pow10(_)
Pow10(e) == IF e = 0 THEN 1 ELSE 10 * Pow10(e - 1)

RECURSIVE StripZeros(_)
StripZeros(ds) == IF Len(ds) > 1 /\ ds[1] = "0" THEN StripZeros(Tail(ds)) ELSE ds

\* the decimal digits of 2^63 - 1 and of 2^63, the range of strconv.ParseInt(s, 10, 64)
MaxInt64Digits == <<"9","2","2","3","3","7","2","0","3","6","8","5","4","7","7","5","8","0","7">>
MinInt64Digits == <<"9","2","2","3","3","7","2","0","3","6","8","5","4","7","7","5","8","0","8">>

RECURSIVE DigitsGreater(_, _)
DigitsGreater(a, b) ==
    IF a = <<>> THEN FALSE
    ELSE IF DigitVal(a[1]) # DigitVal(b[1]) THEN DigitVal(a[1]) > DigitVal(b[1])
    ELSE DigitsGreater(Tail(a), Tail(b))

MagnitudeExceeds(ds, limit) ==
    LET d == StripZeros(ds)
    IN Len(d) > Len(limit) \/ (Len(d) = Len(limit) /\ DigitsGreater(d, limit))

\* strconv.ParseInt(s, 10, 64): [ok, n, why]; why is "syntax" or "range"
ParseInt(s) ==
    LET neg == s # <<>> /\ s[1] = "-"
        signed == s # <<>> /\ s[1] \in {"+", "-"}
        ds == IF signed THEN Tail(s) ELSE s
    IN IF ds = <<>> \/ \E i \in DOMAIN ds : ~IsDigit(ds[i])
       THEN [ok |-> FALSE, n |-> 0, why |-> "syntax"]
       ELSE IF MagnitudeExceeds(ds, IF neg THEN MinInt64Digits ELSE MaxInt64Digits)
       THEN [ok |-> FALSE, n |-> 0, why |-> "range"]
       ELSE [ok |-> TRUE, n |-> IF neg THEN 0 - DigitsValue(ds) ELSE DigitsValue(ds),
             why |-> "none"]

RECURSIVE NormDec(_, _)
NormDec(m, e) == IF e > 0 /\ m % 10 = 0 THEN NormDec(m \div 10, e - 1) ELSE <<m, e>>

\* float64(n) for an int64 n
IntToFloat(n) == <<n, 0>>

\* int64(f): truncation toward zero.  For a float beyond int64 the result is
\* left to the build, and setAnyInt's comparison fails for every int64 it can
\* be: float64 of an int64 is at most 2^63 in magnitude.
FloatToInt(f) ==
    IF f[1] < 0 THEN 0 - ((0 - f[1]) \div Pow10(f[2])) ELSE f[1] \div Pow10(f[2])

RECURSIVE StripTrailingZeros(_)
StripTrailingZeros(ds) ==
    IF Len(ds) > 1 /\ ds[Len(ds)] = "0" THEN StripTrailingZeros(SubSeq(ds, 1, Len(ds) - 1))
    ELSE ds

\* a float beyond the int64 range
BeyondInt64(f) == f[2] < 0

\* strconv.ParseFloat(s, 64) on the decimal forms [+-]digits[.digits]; a long
\* integer literal is a few leading digits followed by zeros
ParseFloat(s) ==
    LET neg == s # <<>> /\ s[1] = "-"
        signed == s # <<>> /\ s[1] \in {"+", "-"}
        body == IF signed THEN Tail(s) ELSE s
        dots == {i \in DOMAIN body : body[i] = "."}
        dot == IF dots = {} THEN Len(body) + 1 ELSE CHOOSE i \in dots : TRUE
        ip == SubSeq(body, 1, dot - 1)
        fp == SubSeq(body, dot + 1, Len(body))
        wellFormed == /\ Cardinality(dots) <= 1
                      /\ ip \o fp # <<>>
                      /\ \A i \in DOMAIN (ip \o fp) : IsDigit((ip \o fp)[i])
        long == fp = <<>> /\ Len(StripZeros(ip)) >= Len(MaxInt64Digits)
        lead == StripTrailingZeros(StripZeros(ip))
        mag == DigitsValue(IF long THEN lead ELSE ip \o fp)
        exp == IF long THEN Len(lead) - Len(StripZeros(ip)) ELSE Len(fp)
    IN IF ~wellFormed THEN [ok |-> FALSE, f |-> <<0, 0>>]
       ELSE IF long THEN [ok |-> TRUE, f |-> <<IF neg THEN 0 - mag ELSE mag, exp>>]
       ELSE [ok |-> TRUE, f |-> NormDec(IF neg THEN 0 - mag ELSE mag, exp)]

RECURSIVE PadZeros(_, _)
PadZeros(ds, n) == IF Len(ds) >= n THEN ds ELSE PadZeros(<<"0">> \o ds, n)

\* strconv.FormatFloat(f, 'f', -1, 64): the shortest decimal that reads back as f
FormatFloat(f) ==
    LET mag == IF f[1] < 0 THEN 0 - f[1] ELSE f[1]
        ip == IF BeyondInt64(f) THEN NatDigits(mag) \o [i \in 1..(0 - f[2]) |-> "0"]
              ELSE NatDigits(mag \div Pow10(f[2]))
        fp == IF f[2] <= 0 THEN <<>>
              ELSE <<".">> \o PadZeros(NatDigits(mag % Pow10(f[2])), f[2])
    IN (IF f[1] < 0 THEN <<"-">> ELSE <<>>) \o ip \o fp

\* fmt's %v of a float64, which is %g: the model's floats within int64 have
\* fewer than seven digits before the point, and one beyond it has a mantissa
\* of one digit
FormatG(f) ==
    IF BeyondInt64(f)
    THEN (IF f[1] < 0 THEN <<"-">> ELSE <<>>)
         \o NatDigits(IF f[1] < 0 THEN 0 - f[1] ELSE f[1]) \o <<"e", "+">>
         \o NatDigits(0 - f[2])
    ELSE FormatFloat(f)

(***************************************************************************)
(* String literals of the source and of its tests, as character sequences. *)
(***************************************************************************)
s_FirstName == <<"F", "i", "r", "s", "t", "N", "a", "m", "e">>
s_LastName == <<"L", "a", "s", "t", "N", "a", "m", "e">>
s_Age == <<"A", "g", "e">>
s_Name == <<"N", "a", "m", "e">>
s_Number == <<"N", "u", "m", "b", "e", "r">>
s_Players == <<"P", "l", "a", "y", "e", "r", "s">>
s_Value == <<"V", "a", "l", "u", "e">>
s_Present == <<"P", "r", "e", "s", "e", "n", "t">>
s_wall == <<"w", "a", "l", "l">>
s_ext == <<"e", "x", "t">>
s_loc == <<"l", "o", "c">>
s_first_name == <<"f", "i", "r", "s", "t", "_", "n", "a", "m", "e">>
s_firstName == <<"f", "i", "r", "s", "t", "N", "a", "m", "e">>
s_firstname == <<"f", "i", "r", "s", "t", "n", "a", "m", "e">>
s_first_name1 == <<"f", "i", "r", "s", "t", "_", "n", "a", "m", "e", "1">>
s_name == <<"n", "a", "m", "e">>
s_NAME == <<"N", "A", "M", "E">>
s_last_name == <<"l", "a", "s", "t", "_", "n", "a", "m", "e">>
s_age == <<"a", "g", "e">>
s_number == <<"n", "u", "m", "b", "e", "r">>
s_Next == <<"N", "e", "x", "t">>
s_next == <<"n", "e", "x", "t">>
s_players == <<"p", "l", "a", "y", "e", "r", "s">>
s_Jack == <<"J", "a", "c", "k">>
s_Jo == <<"J", "o">>
s_bar == <<"b", "a", "r">>
s_overridden == <<"o", "v", "e", "r", "r", "i", "d", "d", "e", "n">>
s_true == <<"t", "r", "u", "e">>
s_false == <<"f", "a", "l", "s", "e">>
s_nil == <<"<", "n", "i", "l", ">">>
s_map == <<"m", "a", "p">>
s_30 == <<"3", "0">>
s_7 == <<"7">>
s_plus7 == <<"+", "7">>
s_minus7 == <<"-", "7">>
s_300 == <<"3", "0", "0">>
s_30p5 == <<"3", "0", ".", "5">>
s_3x == <<"3", "x">>
s_empty == <<>>
s_1e19 == <<"1", "0", "0", "0", "0", "0", "0", "0", "0", "0",
            "0", "0", "0", "0", "0", "0", "0", "0", "0", "0">>
s_dash == <<"-">>

(***************************************************************************)
(* Go types.  A type is a base type under a number of pointer stars; the   *)
(* base types are those of the source and of its tests.                    *)
(***************************************************************************)
PtrTo(t) == [stars |-> t.stars + 1, base |-> t.base]
PtrElem(t) == [stars |-> t.stars - 1, base |-> t.base]

Fld(name, ty) ==
    [name |-> name, hasTag |-> FALSE, tag |-> <<>>, type |-> ty, exported |-> TRUE]
FldTag(name, tag, ty) ==
    [name |-> name, hasTag |-> TRUE, tag |-> tag, type |-> ty, exported |-> TRUE]
FldPriv(name, ty) ==
    [name |-> name, hasTag |-> FALSE, tag |-> <<>>, type |-> ty, exported |-> FALSE]

Basic(kind, bits) == [kind |-> kind, bits |-> bits, elem |-> NoType, fields |-> <<>>]
SliceOf(ty) == [kind |-> "slice", bits |-> 0, elem |-> ty, fields |-> <<>>]
StructOf(fs) == [kind |-> "struct", bits |-> 0, elem |-> NoType, fields |-> fs]
\* a defined type whose underlying type is a pointer to ty
PointerTo(ty) == [kind |-> "ptr", bits |-> 0, elem |-> ty, fields |-> <<>>]

BaseTypes ==
    {"string", "bool", "int", "int8", "int16",
     "int32", "int64", "uint8", "uint64", "float32",
     "float64", "any", "map[string]string", "testStructifyScanner", "testScanner",
     "Optional[string]", "time.Time", "time.Location", "Person", "PersonTag",
     "PersonSkip", "PersonOpt", "PersonAge", "Player", "Team",
     "TeamP", "Entry", "[]string", "[]int32", "[]float64",
     "[]*float64", "[]Player", "[]*Player", "[]testScanner", "Node", "P"}

TypeOf(b) ==
    CASE b = "string" -> Basic("string", 0)
      [] b = "bool" -> Basic("bool", 0)
      [] b = "int" -> Basic("int", 64)
      [] b = "int8" -> Basic("int", 8)
      [] b = "int16" -> Basic("int", 16)
      [] b = "int32" -> Basic("int", 32)
      [] b = "int64" -> Basic("int", 64)
      [] b = "uint8" -> Basic("uint", 8)
      [] b = "float32" -> Basic("float", 32)
      [] b = "float64" -> Basic("float", 64)
      [] b = "any" -> Basic("interface", 0)
      [] b = "map[string]string" -> Basic("map", 0)
      [] b = "testStructifyScanner" -> Basic("string", 0)
      [] b = "testScanner" -> Basic("string", 0)
      [] b = "Optional[string]" ->
            StructOf(<<Fld(s_Value, T("string")), Fld(s_Present, T("bool"))>>)
      [] b = "time.Time" ->
            StructOf(<<FldPriv(s_wall, T("uint64")), FldPriv(s_ext, T("int64")),
                       FldPriv(s_loc, PtrTo(T("time.Location")))>>)
      [] b = "uint64" -> Basic("uint", 64)
      [] b = "time.Location" -> StructOf(<<>>)
      [] b = "Person" ->
            StructOf(<<Fld(s_FirstName, T("string")), Fld(s_LastName, T("string"))>>)
      [] b = "PersonTag" ->
            StructOf(<<FldTag(s_FirstName, s_name, T("string"))>>)
      [] b = "PersonSkip" ->
            StructOf(<<Fld(s_FirstName, T("string")),
                       FldTag(s_LastName, s_dash, T("string"))>>)
      [] b = "PersonOpt" ->
            StructOf(<<Fld(s_FirstName, T("string")),
                       Fld(s_LastName, T("Optional[string]"))>>)
      [] b = "PersonAge" -> StructOf(<<Fld(s_Age, T("int32"))>>)
      [] b = "Player" ->
            StructOf(<<Fld(s_Name, T("string")), Fld(s_Number, T("int32"))>>)
      [] b = "Team" ->
            StructOf(<<Fld(s_Name, T("string")), Fld(s_Players, T("[]Player"))>>)
      [] b = "TeamP" ->
            StructOf(<<Fld(s_Name, T("string")), Fld(s_Players, T("[]*Player"))>>)
      [] b = "Entry" ->
            StructOf(<<Fld(s_Number, T("int8")),
                       FldTag(s_FirstName, s_name, T("string")),
                       Fld(s_LastName, T("Optional[string]"))>>)
      [] b = "[]string" -> SliceOf(T("string"))
      [] b = "[]int32" -> SliceOf(T("int32"))
      [] b = "[]float64" -> SliceOf(T("float64"))
      [] b = "[]*float64" -> SliceOf(PtrTo(T("float64")))
      [] b = "[]Player" -> SliceOf(T("Player"))
      [] b = "[]*Player" -> SliceOf(PtrTo(T("Player")))
      [] b = "[]testScanner" -> SliceOf(T("testScanner"))
      [] b = "Node" -> StructOf(<<Fld(s_Next, PtrTo(T("Node")))>>)
      [] b = "P" -> PointerTo(T("P"))

TypeTable == [b \in BaseTypes |-> TypeOf(b)]
TypeDef(b) == TypeTable[b]

\* reflect.Kind of a type
Kind(t) == IF t.stars > 0 THEN "ptr" ELSE TypeDef(t.base).kind
Fields(t) == TypeDef(t.base).fields
SliceElem(t) == TypeDef(t.base).elem
Bits(t) == TypeDef(t.base).bits

\* The methods of the three recognised interfaces in the method set of a type:
\* all of them are declared on pointer receivers.
PtrMethods(b) ==
    CASE b = "testStructifyScanner" -> {"StructifyScan", "Scan"}
      [] b = "testScanner" -> {"Scan"}
      [] b = "Optional[string]" -> {"ScanMissingField"}
      [] OTHER -> {}

MethodSet(t) == IF t.stars = 1 THEN PtrMethods(t.base) ELSE {}

(***************************************************************************)
(* Values held by a destination of type t: an integer, a decimal <<m, e>>, *)
(* a character sequence, a boolean, a tuple of field values, a slice       *)
(* [isnil, elems], and for a pointer or an interface <<>> (nil) or <<v>>.  *)
(***************************************************************************)
RECURSIVE Zero(_)
Zero(t) ==
    CASE Kind(t) \in {"int", "uint"} -> 0
      [] Kind(t) = "float" -> <<0, 0>>
      [] Kind(t) = "string" -> <<>>
      [] Kind(t) = "bool" -> FALSE
      [] Kind(t) = "struct" -> [i \in DOMAIN Fields(t) |-> Zero(Fields(t)[i].type)]
      [] Kind(t) = "slice" -> [isnil |-> TRUE, elems |-> <<>>]
      [] OTHER -> <<>>

\* the canonical values a normalized source is made of
CStr(s) == [k |-> "String", v |-> s]
CInt(n) == [k |-> "Int", v |-> n]
CFloat(f) == [k |-> "Float", v |-> f]
CBool(b) == [k |-> "Bool", v |-> b]
CMap(m) == [k |-> "Map", v |-> m]
CSeq(q) == [k |-> "Seq", v |-> q]
CNil == [k |-> "Nil", v |-> 0]

\* a destination that holds earlier contents
RECURSIVE Dirty(_)
Dirty(t) ==
    CASE Kind(t) \in {"int", "uint"} -> 9
      [] Kind(t) = "float" -> <<15, 1>>
      [] Kind(t) = "string" -> s_bar
      [] Kind(t) = "bool" -> TRUE
      [] Kind(t) = "struct" -> [i \in DOMAIN Fields(t) |-> Dirty(Fields(t)[i].type)]
      [] Kind(t) = "slice" -> [isnil |-> FALSE, elems |-> <<Dirty(SliceElem(t))>>]
      [] Kind(t) = "interface" -> <<CStr(s_bar)>>
      [] Kind(t) = "ptr" -> <<Dirty(PtrElem(t))>>
      [] OTHER -> <<>>

(***************************************************************************)
(* Source values as the caller passes them: [k, v] with k the Go type.     *)
(* "nil" is the untyped nil; "nil T" is a typed handle that holds nothing; *)
(* "*int" is a pointer that holds something; "struct" is a struct value.   *)
(***************************************************************************)

SignedIntKinds == {"int", "int8", "int16", "int32", "int64"}
FloatKinds == {"float32", "float64"}
SliceKinds == {"[]any", "[]int32", "[]string", "[]uint8"}
NilSliceKinds == {"nil []any", "nil []int32"}
\* the kinds for which reflect.Value.IsNil answers instead of panicking
NilableHoldingKinds == {"*int", "map[string]int"}
NilHandleKinds == {"nil *int", "nil map[string]int"}

\* Go ranges over a map in an order of its own choosing: ord lists the keys
\* in the order of this run.
IterKeys(m, ord) == SelectSeq(ord, LAMBDA key : key \in DOMAIN m)

NOk(v) == [status |-> "ok", val |-> v, typ |-> ""]
NErr(typ) == [status |-> "error", val |-> CNil, typ |-> typ]
NPanic(typ) == [status |-> "panic", val |-> CNil, typ |-> typ]

ScalarKinds == {"string", "bool"} \cup SignedIntKinds \cup FloatKinds

\* a widening that leaves a float32 a float32
widenKeepsFloat32(src) ==
    CASE src.k = "string" -> CStr(src.v)
      [] src.k \in SignedIntKinds -> CInt(src.v)
      [] src.k = "float32" -> CFloat(<<src.v[1], src.v[2], 32>>)
      [] src.k = "float64" -> CFloat(src.v)
      [] src.k = "bool" -> CBool(src.v)

\* a widening that changes the sign of an integer
widenNegates(src) ==
    CASE src.k = "string" -> CStr(src.v)
      [] src.k \in SignedIntKinds -> CInt(0 - src.v)
      [] src.k \in FloatKinds -> CFloat(src.v)
      [] src.k = "bool" -> CBool(src.v)

\* the scalar cases of normalizeSource: int64(src), float64(src) or src itself
widen(src) ==
    CASE src.k = "string" -> CStr(src.v)
      [] src.k \in SignedIntKinds -> CInt(src.v)
      [] src.k \in FloatKinds -> CFloat(src.v)
      [] src.k = "bool" -> CBool(src.v)

RECURSIVE normalizeSource(_, _)
normalizeSource(src, ord) ==
    CASE src.k \in ScalarKinds -> NOk(widen(src))
      [] src.k \in {"map[string]any", "nil map[string]any"} ->
            LET rs == [key \in DOMAIN src.v |-> normalizeSource(src.v[key], ord)]
                bad == SelectSeq(IterKeys(src.v, ord), LAMBDA key : rs[key].status # "ok")
            IN IF bad # <<>> THEN rs[bad[1]]
               ELSE NOk(CMap([key \in DOMAIN src.v |-> rs[key].val]))
      [] src.k = "map[string]string" ->
            NOk(CMap([key \in DOMAIN src.v |-> CStr(src.v[key])]))
      [] src.k \in SliceKinds \cup NilSliceKinds ->
            LET rs == [i \in DOMAIN src.v |-> normalizeSource(src.v[i], ord)]
                bad == {i \in DOMAIN src.v : rs[i].status # "ok"}
            IN IF bad # {} THEN rs[CHOOSE i \in bad : \A j \in bad : i <= j]
               ELSE NOk(CSeq([i \in DOMAIN src.v |-> rs[i].val]))
      [] src.k = "nil" -> NOk(CNil)
      [] src.k \in NilHandleKinds -> NOk(CNil)
      [] src.k \in NilableHoldingKinds -> NErr(src.k)
      [] OTHER -> NPanic(src.k)

(***************************************************************************)
(* Storage.  A mapping or a sequence is a reference to storage that        *)
(* somebody made: "caller" for what the source holds when it is passed,    *)
(* "Parse" for what is made during the call.                               *)
(***************************************************************************)
\* a normalization that returns the caller's container as it is
returnsSrc(src) == "caller"

\* make(map[string]any, len(src)) and make([]any, len(src)) in normalizeSource
makeContainer(src) == "Parse"

\* reflect.MakeSlice(dstVal.Type(), srcVal.Len(), srcVal.Cap()) in setAnySlice
MakeSlice(t) == "Parse"

\* whose storage the containers of the value are that normalizeSource returns
\* for src, which are also the containers normalizeSource writes into
RECURSIVE normalizedStorage(_)
normalizedStorage(src) ==
    CASE src.k \in {"map[string]any", "nil map[string]any"} ->
            {makeContainer(src)} \cup UNION {normalizedStorage(src.v[key]) : key \in DOMAIN src.v}
      [] src.k = "map[string]string" -> {makeContainer(src)}
      [] src.k \in SliceKinds \cup NilSliceKinds ->
            {makeContainer(src)} \cup UNION {normalizedStorage(src.v[i]) : i \in DOMAIN src.v}
      [] OTHER -> {}

\* whose storage the containers are that a destination of type t refers to
\* after source src was assigned to it: an interface holds the normalized
\* value itself, a slice is made anew and filled, a struct takes its fields
\* from the values of the mapping
RECURSIVE storedInto(_, _)
storedInto(src, t) ==
    CASE Kind(t) = "interface" -> normalizedStorage(src)
      [] Kind(t) = "ptr" -> storedInto(src, PtrElem(t))
      [] Kind(t) = "slice" /\ src.k \in SliceKinds \cup NilSliceKinds ->
            {MakeSlice(t)} \cup UNION {storedInto(src.v[i], SliceElem(t)) : i \in DOMAIN src.v}
      [] Kind(t) = "struct" /\ src.k \in {"map[string]any", "nil map[string]any"} ->
            UNION {storedInto(src.v[key], Fields(t)[i].type) :
                      key \in DOMAIN src.v, i \in DOMAIN Fields(t)}
      [] OTHER -> {}

(***************************************************************************)
(* fmt's %v of a canonical value, used by the scanners of the tests.       *)
(***************************************************************************)
AsciiOrder == <<"+", "-", ".">> \o Digits \o <<"<", ">">> \o Uppers
              \o <<"[", "]", "_">> \o Lowers
CodeOf == [c \in Range(AsciiOrder) |-> CHOOSE i \in DOMAIN AsciiOrder : AsciiOrder[i] = c]
Code(c) == CodeOf[c]

RECURSIVE StrLess(_, _)
StrLess(a, b) ==
    IF b = <<>> THEN FALSE
    ELSE IF a = <<>> THEN TRUE
    ELSE IF a[1] # b[1] THEN Code(a[1]) < Code(b[1])
    ELSE StrLess(Tail(a), Tail(b))

RECURSIVE SortKeys(_)
SortKeys(ks) ==
    IF ks = {} THEN <<>>
    ELSE LET least == CHOOSE x \in ks : \A y \in ks \ {x} : StrLess(x, y)
         IN <<least>> \o SortKeys(ks \ {least})

RECURSIVE JoinSp(_)
JoinSp(parts) ==
    IF parts = <<>> THEN <<>>
    ELSE IF Len(parts) = 1 THEN parts[1]
    ELSE parts[1] \o <<" ">> \o JoinSp(Tail(parts))

RECURSIVE Sprint(_)
Sprint(c) ==
    CASE c.k = "String" -> c.v
      [] c.k = "Int" -> FormatInt(c.v)
      [] c.k = "Float" -> FormatG(c.v)
      [] c.k = "Bool" -> IF c.v THEN s_true ELSE s_false
      [] c.k = "Nil" -> s_nil
      [] c.k = "Seq" -> <<"[">> \o JoinSp([i \in DOMAIN c.v |-> Sprint(c.v[i])]) \o <<"]">>
      [] c.k = "Map" ->
            LET ks == SortKeys(DOMAIN c.v)
            IN s_map \o <<"[">>
               \o JoinSp([i \in DOMAIN ks |-> ks[i] \o <<":">> \o Sprint(c.v[ks[i]])])
               \o <<"]">>

(***************************************************************************)
(* Errors.  The code builds every error with fmt.Errorf, each wrapping the *)
(* one below it in its text: an error is the sequence of those layers,     *)
(* outermost first, and <<>> is the nil error.                             *)
(*   "structify.Parse: %v"              Frame("Parse")                     *)
(*   "structify: %v"                    Frame("structify")                 *)
(*   "unable to set value for %s: %v"   FieldFrame(name)                   *)
(*   "cannot assign [%d]: %v"           IndexFrame(i)                      *)
(*   "missing value for %s"             MissingFrame(name)                 *)
(*   "cannot assign %v to %v"           Frame("cannotAssign")              *)
(*   "%v is not an integer"             Frame("notAnInteger")              *)
(*   "%v overflows %v"                  Frame("overflows")                 *)
(*   "unsupported source type: %T"      Frame("unsupportedSourceType")     *)
(*   "... dst is not a pointer, %v"     Frame("notPointer")                *)
(*   "... dst cannot be nil"            Frame("nilDst")                    *)
(*   an error a scanner returns         Frame("scanner")                   *)
(***************************************************************************)
Frame(f) == [f |-> f, name |-> <<>>, idx |-> -1]
FieldFrame(name) == [f |-> "field", name |-> name, idx |-> -1]
MissingFrame(name) == [f |-> "missingValue", name |-> name, idx |-> -1]
IndexFrameOfTheFirst(i) == [f |-> "index", name |-> <<>>, idx |-> 0]
IndexFrame(i) == [f |-> "index", name |-> <<>>, idx |-> i]

\* the outcome of one assignment: the error, the destination's contents
\* afterwards, the handlers that ran, and whether the call panicked
Out(err, val, log, panic) == [err |-> err, val |-> val, log |-> log, panic |-> panic]
Step(h, t, pos) == [h |-> h, t |-> t, pos |-> pos]

Wrap(f, o) == IF o.err = <<>> \/ o.panic THEN o ELSE [o EXCEPT !.err = <<f>> \o @]

\* reflect.Value.OverflowInt for a destination of w bits; every integer of the
\* model fits 32 bits and more
OverflowInt(n, w) ==
    IF w >= 32 THEN FALSE
    ELSE n < 0 - (2 ^ (w - 1)) \/ n > (2 ^ (w - 1)) - 1

\* reflect.Value.SetFloat: a float32 destination holds the nearest float32,
\* which is the value itself when it is a multiple of 1/2, and is marked otherwise
SetFloat(f, w) ==
    IF w = 64 \/ f[2] = 0 \/ (f[2] = 1 /\ f[1] % 5 = 0) THEN f ELSE <<f[1], f[2], 32>>

\* an assignment that drops the fraction of a float
setAnyIntTruncates(src, t, cur) ==
    LET parsed == IF src.k = "String" THEN ParseInt(src.v)
                  ELSE [ok |-> FALSE, n |-> 0, why |-> "none"]
        n == CASE src.k = "Int" -> src.v
               [] src.k = "Float" -> IF BeyondInt64(src.v) THEN 0 ELSE FloatToInt(src.v)
               [] src.k = "String" -> parsed.n
               [] OTHER -> 0
    IN CASE src.k = "String" /\ ~parsed.ok ->
                Out(<<Frame("cannotAssign")>>, cur, <<>>, FALSE)
         [] src.k \notin {"Int", "Float", "String"} ->
                Out(<<Frame("cannotAssign")>>, cur, <<>>, FALSE)
         [] OTHER ->
                IF Kind(t) = "uint" THEN Out(<<>>, cur, <<>>, TRUE)
                ELSE IF OverflowInt(n, Bits(t))
                THEN Out(<<Frame("overflows")>>, cur, <<>>, FALSE)
                ELSE Out(<<>>, n, <<>>, FALSE)

\* line 267 converts, line 268 compares: a float beyond int64 differs from
\* float64(n) whatever n the conversion gave
setAnyInt(src, t, cur) ==
    LET parsed == IF src.k = "String" THEN ParseInt(src.v)
                  ELSE [ok |-> FALSE, n |-> 0, why |-> "none"]
        n == CASE src.k = "Int" -> src.v
               [] src.k = "Float" -> FloatToInt(src.v)
               [] src.k = "String" -> parsed.n
               [] OTHER -> 0
    IN CASE src.k = "Float" /\ (BeyondInt64(src.v) \/ src.v # IntToFloat(n)) ->
                Out(<<Frame("notAnInteger")>>, cur, <<>>, FALSE)
         [] src.k = "String" /\ ~parsed.ok ->
                Out(<<Frame("cannotAssign")>>, cur, <<>>, FALSE)
         [] src.k \notin {"Int", "Float", "String"} ->
                Out(<<Frame("cannotAssign")>>, cur, <<>>, FALSE)
         [] OTHER ->
                IF Kind(t) = "uint" THEN Out(<<>>, cur, <<>>, TRUE)
                ELSE IF OverflowInt(n, Bits(t))
                THEN Out(<<Frame("overflows")>>, cur, <<>>, FALSE)
                ELSE Out(<<>>, n, <<>>, FALSE)

setAnyFloat(src, t, cur) ==
    LET parsed == IF src.k = "String" THEN ParseFloat(src.v)
                  ELSE [ok |-> FALSE, f |-> <<0, 0>>]
    IN CASE src.k = "Float" -> Out(<<>>, SetFloat(src.v, Bits(t)), <<>>, FALSE)
         [] src.k = "Int" -> Out(<<>>, SetFloat(IntToFloat(src.v), Bits(t)), <<>>, FALSE)
         [] src.k = "String" /\ parsed.ok ->
                Out(<<>>, SetFloat(parsed.f, Bits(t)), <<>>, FALSE)
         [] OTHER -> Out(<<Frame("cannotAssign")>>, cur, <<>>, FALSE)

\* an assignment that takes a boolean for its text
setAnyStringFormatsBool(src, t, cur) ==
    CASE src.k = "String" -> Out(<<>>, src.v, <<>>, FALSE)
      [] src.k = "Int" -> Out(<<>>, FormatInt(src.v), <<>>, FALSE)
      [] src.k = "Float" -> Out(<<>>, FormatFloat(src.v), <<>>, FALSE)
      [] src.k = "Bool" -> Out(<<>>, IF src.v THEN s_true ELSE s_false, <<>>, FALSE)
      [] OTHER -> Out(<<Frame("cannotAssign")>>, cur, <<>>, FALSE)

setAnyString(src, t, cur) ==
    CASE src.k = "String" -> Out(<<>>, src.v, <<>>, FALSE)
      [] src.k = "Int" -> Out(<<>>, FormatInt(src.v), <<>>, FALSE)
      [] src.k = "Float" -> Out(<<>>, FormatFloat(src.v), <<>>, FALSE)
      [] OTHER -> Out(<<Frame("cannotAssign")>>, cur, <<>>, FALSE)

setAnyBool(src, t, cur) ==
    IF src.k = "Bool" THEN Out(<<>>, src.v, <<>>, FALSE)
    ELSE Out(<<Frame("cannotAssign")>>, cur, <<>>, FALSE)

\* reflect.ValueOf(nil) is the zero Value, on which CanConvert panics; every
\* other canonical value converts to the empty interface
setAnyInterface(src, t, cur) ==
    IF src.k = "Nil" THEN Out(<<>>, cur, <<>>, TRUE)
    ELSE Out(<<>>, <<src>>, <<>>, FALSE)

(***************************************************************************)
(* The scanners of the tests (src/unnamed/part_001) and the functions they *)
(* register.  held is FALSE when the destination handle holds no storage.  *)
(***************************************************************************)
Twice(src) == Sprint(src) \o <<" ">> \o Sprint(src)

\* StructifyScan of *testStructifyScanner
StructifyScan(src, t, cur, held) ==
    IF held THEN Out(<<>>, Twice(src), <<>>, FALSE) ELSE Out(<<>>, cur, <<>>, TRUE)

\* Scan of *testStructifyScanner fails; Scan of *testScanner stores
Scan(src, t, cur, held) ==
    IF t.base = "testStructifyScanner" THEN Out(<<Frame("scanner")>>, cur, <<>>, FALSE)
    ELSE IF held THEN Out(<<>>, Twice(src), <<>>, FALSE)
    ELSE Out(<<>>, cur, <<>>, TRUE)

\* a hook that leaves the field as it was
ScanMissingFieldKeeps(t, cur) == cur

\* ScanMissingField of *Optional[T]
ScanMissingField(t, cur) == Zero(t)

\* time.Unix(sec, 0): no wall clock reading, sec seconds from the epoch, the
\* local Location
TimeUnix(sec) == <<0, sec, <<<<>>>>>>

\* the functions the tests register, and one that rejects every source
TypeScannerFunc(fn, src, h, cur, held) ==
    CASE fn = "overridden" ->
            IF h = PtrTo(T("string")) /\ held THEN Out(<<>>, s_overridden, <<>>, FALSE)
            ELSE Out(<<>>, cur, <<>>, TRUE)
      [] fn = "unixTime" ->
            LET r == ParseInt(Sprint(src))
            IN IF ~r.ok THEN Out(<<Frame("scanner")>>, cur, <<>>, FALSE)
               ELSE IF h = PtrTo(T("time.Time")) /\ held
               THEN Out(<<>>, TimeUnix(r.n), <<>>, FALSE)
               ELSE Out(<<>>, cur, <<>>, TRUE)
      [] fn = "reject" -> Out(<<Frame("scanner")>>, cur, <<>>, FALSE)

(***************************************************************************)
(* The assigner.  A destination is a handle of type h (the dynamic type of *)
(* dst) that holds storage (held) with contents cur, or holds none.  reg   *)
(* is p.typeScannerFuncs, a function from handle types to registered       *)
(* functions (a nil map has no entries).                                   *)
(***************************************************************************)
\* a dispatch that asks for Scan before StructifyScan
HandlerScanFirst(reg, h) ==
    IF h \in DOMAIN reg THEN "converter"
    ELSE IF "Scan" \in MethodSet(h) THEN "Scan"
    ELSE IF "StructifyScan" \in MethodSet(h) THEN "StructifyScan"
    ELSE "builtin"

\* a dispatch that consults the registry for struct destinations only
HandlerRegistryForStructs(reg, h) ==
    IF h \in DOMAIN reg /\ h.stars = 1 /\ Kind(PtrElem(h)) = "struct" THEN "converter"
    ELSE IF "StructifyScan" \in MethodSet(h) THEN "StructifyScan"
    ELSE IF "Scan" \in MethodSet(h) THEN "Scan"
    ELSE "builtin"

\* which of the four handles a step: lines 66-90 of parseNormalizedSource
Handler(reg, h) ==
    IF h \in DOMAIN reg THEN "converter"
    ELSE IF "StructifyScan" \in MethodSet(h) THEN "StructifyScan"
    ELSE IF "Scan" \in MethodSet(h) THEN "Scan"
    ELSE "builtin"

\* normalizedNameToMapKey: a later key of the range overwrites an earlier one
NameIndex(m, ord) ==
    LET keys == IterKeys(m, ord)
        Last(nn) == CHOOSE i \in DOMAIN keys :
                        /\ normalizeFieldName(keys[i]) = nn
                        /\ \A j \in DOMAIN keys :
                              normalizeFieldName(keys[j]) = nn => j <= i
    IN [nn \in {normalizeFieldName(key) : key \in DOMAIN m} |-> keys[Last(nn)]]

\* a lookup that folds the tag as it folds a field name
FieldKeyFoldsTag(f, index) ==
    LET nn == normalizeFieldName(IF f.hasTag THEN f.tag ELSE f.name)
    IN [skip |-> f.hasTag /\ f.tag = s_dash,
        key |-> IF nn \in DOMAIN index THEN index[nn] ELSE <<>>]

\* a lookup that takes "-" for a key like any other
FieldKeyNoSkip(f, index) ==
    [skip |-> FALSE,
     key |-> IF f.hasTag THEN f.tag
             ELSE IF normalizeFieldName(f.name) \in DOMAIN index
             THEN index[normalizeFieldName(f.name)]
             ELSE <<>>]

\* the map key of a struct field, or that the field is skipped
FieldKey(f, index) ==
    IF f.hasTag
    THEN [skip |-> f.tag = s_dash, key |-> f.tag]
    ELSE [skip |-> FALSE,
          key |-> IF normalizeFieldName(f.name) \in DOMAIN index
                  THEN index[normalizeFieldName(f.name)]
                  ELSE <<>>]

\* a pointer that keeps what it refers to
setNilPointerKeeps(t, cur) == cur

\* dstElemVal.Set(reflect.Zero(dstElemVal.Type())) for a pointer of type t
setNilPointer(t, cur) == Zero(t)

RECURSIVE parseNormalizedSource(_, _, _, _, _, _, _)
RECURSIVE StructLoop(_, _, _, _, _, _, _, _)
RECURSIVE SliceLoop(_, _, _, _, _, _, _)

\* the field loop of setAnyStruct from field i on
StructLoop(reg, m, t, vals, i, index, log, ord) ==
    IF i > Len(Fields(t)) THEN Out(<<>>, vals, log, FALSE)
    ELSE LET f == Fields(t)[i]
             fk == FieldKey(f, index)
         IN IF fk.skip THEN StructLoop(reg, m, t, vals, i + 1, index, log, ord)
            ELSE IF ~f.exported THEN Out(<<>>, vals, log, TRUE)
            ELSE IF fk.key \in DOMAIN m
            THEN LET r == parseNormalizedSource(reg, m[fk.key], PtrTo(f.type), TRUE,
                                                vals[i], "field", ord)
                     vals2 == [vals EXCEPT ![i] = r.val]
                 IN IF r.panic THEN Out(<<>>, vals2, log \o r.log, TRUE)
                    ELSE IF r.err # <<>>
                    THEN Out(<<FieldFrame(f.name)>> \o r.err, vals2, log \o r.log, FALSE)
                    ELSE StructLoop(reg, m, t, vals2, i + 1, index, log \o r.log, ord)
            ELSE IF "ScanMissingField" \in MethodSet(PtrTo(f.type))
            THEN StructLoop(reg, m, t,
                            [vals EXCEPT ![i] = ScanMissingField(f.type, vals[i])],
                            i + 1, index,
                            log \o <<Step("ScanMissingField", PtrTo(f.type), "field")>>,
                            ord)
            ELSE Out(<<MissingFrame(f.name)>>, vals, log, FALSE)

setAnyStruct(reg, src, t, cur, ord) ==
    IF src.k # "Map" THEN Out(<<Frame("cannotAssign")>>, cur, <<>>, FALSE)
    ELSE StructLoop(reg, src.v, t, cur, 1, NameIndex(src.v, ord), <<>>, ord)

\* the element loop of setAnySlice from element i on (i counts from 1)
SliceLoop(reg, q, t, elems, i, log, ord) ==
    IF i > Len(q) THEN Out(<<>>, [isnil |-> FALSE, elems |-> elems], log, FALSE)
    ELSE LET r == parseNormalizedSource(reg, q[i], PtrTo(SliceElem(t)), TRUE,
                                        elems[i], "elem", ord)
             elems2 == [elems EXCEPT ![i] = r.val]
             sl == [isnil |-> FALSE, elems |-> elems2]
         IN IF r.panic THEN Out(<<>>, sl, log \o r.log, TRUE)
            ELSE IF r.err # <<>>
            THEN Out(<<IndexFrame(i - 1)>> \o r.err, sl, log \o r.log, FALSE)
            ELSE SliceLoop(reg, q, t, elems2, i + 1, log \o r.log, ord)

\* an assignment that fills the slice the destination holds and keeps what
\* it held beyond the length of the source
setAnySliceKeepsTail(reg, src, t, cur, ord) ==
    IF src.k # "Seq" THEN Out(<<Frame("cannotAssign")>>, cur, <<>>, FALSE)
    ELSE LET o == SliceLoop(reg, src.v, t, [i \in DOMAIN src.v |-> Zero(SliceElem(t))], 1,
                            <<>>, ord)
             n == Len(src.v)
             kept == IF Len(cur.elems) > n THEN SubSeq(cur.elems, n + 1, Len(cur.elems))
                     ELSE <<>>
         IN [o EXCEPT !.val.elems = @ \o kept]

setAnySlice(reg, src, t, cur, ord) ==
    IF src.k # "Seq" THEN Out(<<Frame("cannotAssign")>>, cur, <<>>, FALSE)
    ELSE SliceLoop(reg, src.v, t, [i \in DOMAIN src.v |-> Zero(SliceElem(t))], 1,
                   <<>>, ord)

parseNormalizedSource(reg, src, h, held, cur, pos, ord) ==
    LET who == Handler(reg, h)
        Logged(o) == [o EXCEPT !.log = <<Step(who, h, pos)>> \o @]
        t == PtrElem(h)
    IN CASE who = "converter" ->
                Logged(Wrap(Frame("structify"), TypeScannerFunc(reg[h], src, h, cur, held)))
         [] who = "StructifyScan" ->
                Logged(Wrap(Frame("structify"), StructifyScan(src, t, cur, held)))
         [] who = "Scan" ->
                Logged(Wrap(Frame("structify"), Scan(src, t, cur, held)))
         [] OTHER ->
                IF h.stars = 0 THEN Logged(Out(<<Frame("notPointer")>>, cur, <<>>, FALSE))
                ELSE IF ~held THEN Logged(Out(<<Frame("nilDst")>>, cur, <<>>, FALSE))
                ELSE Logged(
                  CASE Kind(t) \in {"int", "uint"} ->
                          Wrap(Frame("Parse"), setAnyInt(src, t, cur))
                    [] Kind(t) = "float" -> Wrap(Frame("Parse"), setAnyFloat(src, t, cur))
                    [] Kind(t) = "string" -> Wrap(Frame("Parse"), setAnyString(src, t, cur))
                    [] Kind(t) = "bool" -> Wrap(Frame("Parse"), setAnyBool(src, t, cur))
                    [] Kind(t) = "struct" ->
                          Wrap(Frame("Parse"), setAnyStruct(reg, src, t, cur, ord))
                    [] Kind(t) = "slice" ->
                          Wrap(Frame("Parse"), setAnySlice(reg, src, t, cur, ord))
                    [] Kind(t) = "interface" ->
                          Wrap(Frame("Parse"), setAnyInterface(src, t, cur))
                    [] Kind(t) = "ptr" ->
                          IF src.k = "Nil" THEN Out(<<>>, setNilPointer(t, cur), <<>>, FALSE)
                          ELSE LET r == parseNormalizedSource(reg, src, t, TRUE,
                                                              Zero(PtrElem(t)), "ptr", ord)
                               IN Wrap(Frame("Parse"), [r EXCEPT !.val = <<r.val>>])
                    [] OTHER -> Out(<<Frame("cannotAssign")>>, cur, <<>>, FALSE))

\* Parser.Parse
ParserParse(reg, src, h, held, cur, ord) ==
    LET n == normalizeSource(src, ord)
    IN CASE n.status = "panic" -> Out(<<>>, cur, <<>>, TRUE)
         [] n.status = "error" ->
                Out(<<Frame("structify"), Frame("unsupportedSourceType")>>, cur, <<>>, FALSE)
         [] OTHER -> parseNormalizedSource(reg, n.val, h, held, cur, "top", ord)

(***************************************************************************)
(* The revision of the engine that recurses through Parse: every field and *)
(* every element is handed to Parse as it stands in the source, and Parse  *)
(* normalizes it, one level, before it assigns.  This revision knows no    *)
(* registry, no scanner, no pointer and no interface destination.          *)
(***************************************************************************)
\* normalizeSource of that revision: the values inside a map[string]any and
\* a []any stay as the caller passed them
normalizeSourcePerStep(src) ==
    CASE src.k \in ScalarKinds -> NOk(widen(src))
      [] src.k \in {"map[string]any", "nil map[string]any"} -> NOk(CMap(src.v))
      [] src.k = "map[string]string" ->
            NOk(CMap([key \in DOMAIN src.v |-> Raw("string", src.v[key])]))
      [] src.k \in SliceKinds \cup NilSliceKinds -> NOk(CSeq(src.v))
      [] OTHER -> NErr(src.k)

RECURSIVE ParsePerStep(_, _, _, _, _)
RECURSIVE StructLoopPerStep(_, _, _, _, _, _)
RECURSIVE SliceLoopPerStep(_, _, _, _, _)

\* the field loop of that revision's setAnyStruct from field i on
StructLoopPerStep(m, t, vals, i, index, ord) ==
    IF i > Len(Fields(t)) THEN Out(<<>>, vals, <<>>, FALSE)
    ELSE LET f == Fields(t)[i]
             nn == normalizeFieldName(f.name)
         IN IF f.hasTag /\ f.tag = s_dash
            THEN StructLoopPerStep(m, t, vals, i + 1, index, ord)
            ELSE IF ~f.hasTag /\ nn \notin DOMAIN index
            THEN Out(<<MissingFrame(f.name)>>, vals, <<>>, FALSE)
            ELSE LET key == IF f.hasTag THEN f.tag ELSE index[nn]
                 IN IF key \notin DOMAIN m
                    THEN Out(<<MissingFrame(f.name)>>, vals, <<>>, FALSE)
                    ELSE IF ~f.exported THEN Out(<<>>, vals, <<>>, TRUE)
                    ELSE LET r == ParsePerStep(m[key], PtrTo(f.type), TRUE, vals[i], ord)
                             vals2 == [vals EXCEPT ![i] = r.val]
                         IN IF r.panic THEN Out(<<>>, vals2, <<>>, TRUE)
                            ELSE IF r.err # <<>>
                            THEN Out(<<FieldFrame(f.name)>> \o r.err, vals2, <<>>, FALSE)
                            ELSE StructLoopPerStep(m, t, vals2, i + 1, index, ord)

setAnyStructPerStep(src, t, cur, ord) ==
    IF src.k # "Map" THEN Out(<<Frame("cannotAssign")>>, cur, <<>>, FALSE)
    ELSE StructLoopPerStep(src.v, t, cur, 1, NameIndex(src.v, ord), ord)

\* the element loop of that revision's setAnySlice from element i on
SliceLoopPerStep(q, t, elems, i, ord) ==
    IF i > Len(q) THEN Out(<<>>, [isnil |-> FALSE, elems |-> elems], <<>>, FALSE)
    ELSE LET r == ParsePerStep(q[i], PtrTo(SliceElem(t)), TRUE, elems[i], ord)
             elems2 == [elems EXCEPT ![i] = r.val]
             sl == [isnil |-> FALSE, elems |-> elems2]
         IN IF r.panic THEN Out(<<>>, sl, <<>>, TRUE)
            ELSE IF r.err # <<>> THEN Out(<<IndexFrame(i - 1)>> \o r.err, sl, <<>>, FALSE)
            ELSE SliceLoopPerStep(q, t, elems2, i + 1, ord)

setAnySlicePerStep(src, t, cur, ord) ==
    IF src.k # "Seq" THEN Out(<<Frame("cannotAssign")>>, cur, <<>>, FALSE)
    ELSE SliceLoopPerStep(src.v, t, [i \in DOMAIN src.v |-> Zero(SliceElem(t))], 1, ord)

\* Parser.Parse of that revision
ParsePerStep(src, h, held, cur, ord) ==
    LET n == normalizeSourcePerStep(src)
        t == PtrElem(h)
    IN IF n.status # "ok"
       THEN Out(<<Frame("structify"), Frame("unsupportedSourceType")>>, cur, <<>>, FALSE)
       ELSE IF h.stars = 0 THEN Out(<<Frame("notPointer")>>, cur, <<>>, FALSE)
       ELSE IF ~held THEN Out(<<Frame("nilDst")>>, cur, <<>>, FALSE)
       ELSE CASE Kind(t) \in {"int", "uint"} ->
                    Wrap(Frame("Parse"), setAnyInt(n.val, t, cur))
              [] Kind(t) = "float" -> Wrap(Frame("Parse"), setAnyFloat(n.val, t, cur))
              [] Kind(t) = "string" -> Wrap(Frame("Parse"), setAnyString(n.val, t, cur))
              [] Kind(t) = "bool" -> Wrap(Frame("Parse"), setAnyBool(n.val, t, cur))
              [] Kind(t) = "struct" ->
                    Wrap(Frame("Parse"), setAnyStructPerStep(n.val, t, cur, ord))
              [] Kind(t) = "slice" ->
                    Wrap(Frame("Parse"), setAnySlicePerStep(n.val, t, cur, ord))
              [] OTHER -> Out(<<Frame("cannotAssign")>>, cur, <<>>, FALSE)

(***************************************************************************)
(* The inputs of the model: the source values and destinations of the      *)
(* tests, and the values around them.                                      *)
(***************************************************************************)
Parsers == {"p1", "p2"}

\* what RegisterTypeScanner is called with: the type of the example value
\* and the function
Registrations ==
    {[h |-> PtrTo(T("string")), fn |-> "overridden"],
     [h |-> PtrTo(T("string")), fn |-> "reject"],
     [h |-> PtrTo(T("time.Time")), fn |-> "unixTime"],
     [h |-> PtrTo(T("testStructifyScanner")), fn |-> "reject"],
     [h |-> T("string"), fn |-> "overridden"]}

MapsOver(keys, vals) ==
    UNION {[S -> vals] : S \in {S \in SUBSET keys : Cardinality(S) <= MaxKeys}}
SeqsOver(elems) == UNION {[1..n -> elems] : n \in 0..MaxLen}

RStr(s) == Raw("string", s)

ScalarSources ==
    {RStr(s_Jack), RStr(s_30), RStr(s_7), RStr(s_minus7), RStr(s_plus7), RStr(s_300),
     RStr(s_30p5), RStr(s_3x), RStr(s_empty), RStr(s_1e19), Raw("float64", <<1, -19>>),
     Raw("int", 30), Raw("int8", 30), Raw("int16", 30), Raw("int32", 30),
     Raw("int64", 30), Raw("int", 300), Raw("int", -7),
     Raw("float64", <<30, 0>>), Raw("float32", <<30, 0>>), Raw("float64", <<305, 1>>),
     Raw("float32", <<305, 1>>), Raw("float64", <<11, 1>>), Raw("float64", <<-75, 1>>),
     Raw("bool", TRUE), Raw("bool", FALSE), RawNil, Raw("nil *int", 0),
     Raw("uint8", 30), Raw("*int", 30), Raw("struct", 0),
     Raw("nil []any", <<>>), Raw("nil []int32", <<>>), Raw("nil map[string]any", <<>>),
     Raw("nil map[string]int", 0), Raw("map[string]int", 0),
     Raw("[]uint8", <<Raw("uint8", 30)>>),
     Raw("map[string]string", (s_name :> s_Jack)),
     Raw("[]int32", <<Raw("int32", 30), Raw("int32", 7)>>)}

ScalarTypes ==
    {T("string"), T("bool"), T("int8"), T("int16"), T("int32"), T("int64"), T("int"),
     T("uint8"), T("float32"), T("float64"), T("any"), T("testStructifyScanner"),
     T("testScanner"), T("time.Time"), T("map[string]string"),
     PtrTo(T("string")), PtrTo(T("int8")), PtrTo(T("testScanner"))}

PersonKeys == {s_FirstName, s_first_name, s_firstName, s_firstname, s_first_name1,
               s_LastName, s_last_name, s_empty}
PersonVals == {RStr(s_Jack), RStr(s_Jo), Raw("bool", TRUE)}
PersonTypes == {T("Person"), T("PersonSkip")}

OptKeys == {s_firstName, s_last_name}
OptVals == {RStr(s_Jack), RStr(s_empty)}
OptTypes == {T("PersonOpt")}

TagKeys == {s_name, s_NAME, s_FirstName, s_first_name, s_empty}
TagTypes == {T("PersonTag")}

EntryKeys == {s_number, s_name, s_NAME, s_FirstName, s_last_name}
EntryVals == {RStr(s_Jack), Raw("int", 7), Raw("int", 300)}
EntryTypes == {T("Entry"), PtrTo(T("Entry"))}

NumKeys == {s_name, s_number, s_Number, s_age}
NumVals == {RStr(s_Jack), Raw("int32", 30), RStr(s_30),
            Raw("float64", <<30, 0>>), Raw("float64", <<305, 1>>)}
NumTypes == {T("Player"), T("PersonAge")}

PlayerMaps ==
    {Raw("map[string]any", (s_name :> RStr(s_Jack) @@ s_number :> Raw("int", 30))),
     Raw("map[string]any", (s_name :> RStr(s_Jo) @@ s_number :> Raw("int", 7))),
     Raw("map[string]any", (s_name :> RStr(s_Jo) @@ s_number :> RStr(s_bar))),
     Raw("map[string]any", (s_name :> RStr(s_Jo)))}
TeamNames == {RStr(s_Jack), Raw("bool", TRUE)}
TeamSources ==
    {Raw("map[string]any", m) :
        m \in {(s_name :> n) @@ (s_players :> Raw("[]any", q)) :
                    n \in TeamNames, q \in SeqsOver(PlayerMaps)}
              \cup {(s_players :> Raw("[]any", q)) : q \in SeqsOver(PlayerMaps)}
              \cup {(s_name :> n) : n \in TeamNames}}
TeamTypes == {T("Team"), T("TeamP")}

\* mappings and sequences of mappings for a destination of type any
AnySources == PlayerMaps \cup {Raw("[]any", q) : q \in SeqsOver(PlayerMaps)}

ElemVals == {Raw("int", 42), RStr(s_bar), RStr(s_7), Raw("float64", <<11, 1>>), RawNil}
SliceTypes == {T("[]string"), T("[]int32"), T("[]float64"), T("[]*float64"),
               T("[]testScanner"), T("any")}

\* a destination pointer that holds storage of type t
Held(src, t) == [src |-> src, h |-> PtrTo(t), held |-> TRUE]

ValidInputs ==
    {Held(s, t) : s \in ScalarSources, t \in ScalarTypes}
    \cup {Held(Raw("map[string]any", m), t) :
              m \in MapsOver(PersonKeys, PersonVals), t \in PersonTypes}
    \cup {Held(Raw("map[string]any", m), t) :
              m \in MapsOver(OptKeys, OptVals), t \in OptTypes}
    \cup {Held(Raw("map[string]any", m), t) :
              m \in MapsOver(TagKeys, PersonVals), t \in TagTypes}
    \cup {Held(Raw("map[string]any", m), t) :
              m \in MapsOver(EntryKeys, EntryVals), t \in EntryTypes}
    \cup {Held(Raw("map[string]any", m), t) :
              m \in MapsOver(NumKeys, NumVals), t \in NumTypes}
    \cup {Held(s, t) : s \in TeamSources, t \in TeamTypes}
    \cup {Held(Raw("[]any", q), t) : q \in SeqsOver(ElemVals), t \in SliceTypes}
    \cup {Held(s, t) : s \in ScalarSources, t \in {T("Person"), T("[]int32")}}
    \cup {Held(s, T("any")) : s \in AnySources}

\* destinations that are no pointer to storage: a nil pointer, a value, nil
InvalidInputs ==
    {[src |-> s, h |-> hh.h, held |-> FALSE] :
        s \in {RStr(s_Jack), Raw("int", 30), RawNil, Raw("uint8", 30)},
        hh \in {[h |-> PtrTo(T("string"))], [h |-> PtrTo(T("Person"))],
                [h |-> PtrTo(T("testScanner"))], [h |-> T("string")],
                [h |-> T("Person")], [h |-> NoType]}}

\* with functions registered, the destinations that hold a registered type
RegisteredInputs ==
    {Held(s, t) :
        s \in {RStr(s_Jack), RStr(s_30), Raw("int", 30), Raw("bool", TRUE), RawNil,
               Raw("[]any", <<RStr(s_Jack), RStr(s_30)>>),
               Raw("map[string]any", (s_first_name :> RStr(s_Jack)
                                        @@ s_LastName :> RStr(s_Jo))),
               Raw("map[string]any", (s_name :> RStr(s_Jack)))},
        t \in {T("string"), T("testScanner"), T("testStructifyScanner"), T("time.Time"),
               PtrTo(T("string")), T("[]string"), T("Person"), T("PersonOpt"),
               T("PersonTag"), T("int32")}}
    \cup {i \in InvalidInputs : i.src \in {RStr(s_Jack), RStr(s_30)}}

\* after several registrations, the destinations of the registered types
ReregisteredInputs ==
    {Held(s, t) :
        s \in {RStr(s_Jack), RStr(s_30), RawNil,
               Raw("map[string]any", (s_first_name :> RStr(s_Jack)
                                        @@ s_LastName :> RStr(s_Jo)))},
        t \in {T("string"), T("testStructifyScanner"), T("time.Time"),
               PtrTo(T("string")), T("[]string"), T("Person")}}
    \cup {i \in InvalidInputs : i.src = RStr(s_Jack)}

AllKeys == <<s_FirstName, s_first_name, s_firstName, s_firstname, s_first_name1,
             s_name, s_NAME, s_LastName, s_last_name, s_empty, s_number, s_Number,
             s_age, s_Age, s_players, s_next>>

RECURSIVE Rotate(_, _)
Rotate(s, n) == IF n = 0 \/ s = <<>> THEN s ELSE Rotate(Tail(s) \o <<s[1]>>, n - 1)

\* the range orders that differ for the source: the last of the keys of a top
\* level map that normalize alike decides, and any of its keys can be last
Orders(src) ==
    IF /\ src.k = "map[string]any"
       /\ \E a, b \in DOMAIN src.v : a # b /\ normalizeFieldName(a) = normalizeFieldName(b)
    THEN {Rotate(AllKeys, n) : n \in {i \in DOMAIN AllKeys : AllKeys[i] \in DOMAIN src.v}}
    ELSE {AllKeys}

Init ==
    /\ typeScannerFuncs = [p \in Parsers |-> NilRegistry]
    /\ nregs = 0
    /\ call = NoCall
    /\ stack = <<>>

\* a registration in a registry that all parsers share
RegisterTypeScannerForAll(p, h, fn) ==
    /\ ~call.done
    /\ nregs < MaxRegs
    /\ typeScannerFuncs' =
          [q \in Parsers |->
              LET m == typeScannerFuncs[q].m
              IN [isnil |-> FALSE,
                  m |-> [x \in DOMAIN m \cup {h} |-> IF x = h THEN fn ELSE m[x]]]]
    /\ nregs' = nregs + 1
    /\ UNCHANGED <<call, stack>>

\* Parser.RegisterTypeScanner(value, fn), h the type of value
RegisterTypeScanner(p, h, fn) ==
    /\ ~call.done
    /\ nregs < MaxRegs
    /\ LET m == typeScannerFuncs[p].m
       IN typeScannerFuncs' =
            [typeScannerFuncs EXCEPT
                ![p] = [isnil |-> FALSE,
                        m |-> [x \in DOMAIN m \cup {h} |-> IF x = h THEN fn ELSE m[x]]]]
    /\ nregs' = nregs + 1
    /\ UNCHANGED <<call, stack>>

Befores(i) ==
    IF i.held THEN {Zero(PtrElem(i.h)), Dirty(PtrElem(i.h))} ELSE {<<>>}

\* Parser.Parse(src, dst) runs to its return
Parse(p, i, before, ord) ==
    /\ ~call.done
    /\ LET o == ParserParse(typeScannerFuncs[p].m, i.src, i.h, i.held, before, ord)
       IN call' = [done |-> TRUE, p |-> p, src |-> i.src, h |-> i.h, held |-> i.held,
                   ord |-> ord, before |-> before, err |-> o.err, val |-> o.val,
                   log |-> o.log, panic |-> o.panic]
    /\ UNCHANGED <<typeScannerFuncs, nregs, stack>>

\* the caller takes the result
Return ==
    /\ call.done
    /\ call' = NoCall
    /\ UNCHANGED <<typeScannerFuncs, nregs, stack>>

\* the first parser, while nothing is registered, is given every input; a
\* parser that may hold registrations, and the second one, those that reach
\* the registered types, fewer of them after the first registration
Inputs(p) ==
    IF p = "p1" /\ nregs = 0 THEN ValidInputs \cup InvalidInputs
    ELSE IF nregs <= 1 THEN RegisteredInputs
    ELSE ReregisteredInputs

Next ==
    \/ /\ ~call.done
       /\ \E p \in Parsers : \E i \in Inputs(p) :
             \E before \in Befores(i), ord \in Orders(i.src) : Parse(p, i, before, ord)
    \/ /\ ~call.done
       /\ \E p \in Parsers, r \in Registrations : RegisterTypeScanner(p, r.h, r.fn)
    \/ Return

Spec == Init /\ [][Next]_vars

(***************************************************************************)
(* The claims.  They speak of the Parse call that has returned last: its   *)
(* arguments, the destination before and after, and the error.             *)
(***************************************************************************)
Reg == typeScannerFuncs[call.p].m
DstType == PtrElem(call.h)
Normalized == normalizeSource(call.src, call.ord)
Source == Normalized.val

\* the call was handled by the built-in rules for the destination's kind
BuiltinCall ==
    /\ call.done /\ call.held /\ ~call.panic
    /\ call.h.stars = 1
    /\ call.h \notin DOMAIN Reg
    /\ PtrMethods(DstType.base) \cap {"StructifyScan", "Scan"} = {}
    /\ Normalized.status = "ok"

\* a mapping was assigned to a struct
StructCall == BuiltinCall /\ Kind(DstType) = "struct" /\ Source.k = "Map"

\* a sequence was assigned to a slice
SliceCall == BuiltinCall /\ Kind(DstType) = "slice" /\ Source.k = "Seq"

\* what field i of the destination comes to when it is taken on its own
FieldAlone(i) ==
    LET f == Fields(DstType)[i]
        fk == FieldKey(f, NameIndex(Source.v, call.ord))
    IN IF fk.skip THEN [st |-> "skipped", val |-> call.before[i], err |-> <<>>]
       ELSE IF ~f.exported THEN [st |-> "panics", val |-> call.before[i], err |-> <<>>]
       ELSE IF fk.key \in DOMAIN Source.v
       THEN LET r == parseNormalizedSource(Reg, Source.v[fk.key], PtrTo(f.type), TRUE,
                                           call.before[i], "field", call.ord)
            IN [st |-> IF r.panic THEN "panics"
                       ELSE IF r.err # <<>> THEN "fails" ELSE "succeeds",
                val |-> r.val, err |-> r.err]
       ELSE IF "ScanMissingField" \in MethodSet(PtrTo(f.type))
       THEN [st |-> "tolerated", val |-> Zero(f.type), err |-> <<>>]
       ELSE [st |-> "missing", val |-> call.before[i], err |-> <<>>]

\* what element i of the source comes to when it is taken on its own
ElemAlone(i) ==
    LET r == parseNormalizedSource(Reg, Source.v[i], PtrTo(SliceElem(DstType)), TRUE,
                                   Zero(SliceElem(DstType)), "elem", call.ord)
    IN [st |-> IF r.panic THEN "panics" ELSE IF r.err # <<>> THEN "fails" ELSE "succeeds",
        val |-> r.val, err |-> r.err]

NoFieldPanics == \A i \in DOMAIN Fields(DstType) : FieldAlone(i).st # "panics"
NoElemPanics == \A i \in DOMAIN Source.v : ElemAlone(i).st # "panics"

Indices(n) == [i \in 1..n |-> i]
FailingFields ==
    SelectSeq(Indices(Len(Fields(DstType))),
              LAMBDA i : FieldAlone(i).st \in {"fails", "missing"})
FailingElems == SelectSeq(Indices(Len(Source.v)), LAMBDA i : ElemAlone(i).st = "fails")

\* the field errors and the element errors the returned error holds: the
\* layers of the error right below the one of the top level assignment
Below(err, n) == IF Len(err) >= n THEN [i \in 1..(Len(err) - n + 1) |-> err[i + n - 1]] ELSE <<>>
SecondLayer == IF Len(call.err) >= 2 THEN <<call.err[2]>> ELSE <<>>
FieldErrors == SelectSeq(SecondLayer, LAMBDA e : e.f \in {"field", "missingValue"})
ElemErrors == SelectSeq(SecondLayer, LAMBDA e : e.f = "index")

\* C1: Parse of a mapping into a struct in which fields fail returns an error
\* that holds exactly one field error per failing field, under the field's
\* declared name and in declaration order, and none for the other fields; two
\* required fields that are both missing give two 'missing value' errors.
C1_OneFieldErrorPerFailingField ==
    (StructCall /\ NoFieldPanics) =>
        /\ Len(FieldErrors) = Len(FailingFields)
        /\ \A j \in DOMAIN FailingFields :
              LET i == FailingFields[j]
              IN /\ FieldErrors[j].name = Fields(DstType)[i].name
                 /\ FieldAlone(i).st = "missing" => FieldErrors[j].f = "missingValue"

\* C2: Parse of a sequence into a slice in which elements fail returns an
\* error that holds exactly one element error per failing index, under that
\* index and with that element's cause, in ascending order, and none for the
\* other indices.
C2_OneElementErrorPerFailingIndex ==
    (SliceCall /\ NoElemPanics) =>
        /\ Len(ElemErrors) = Len(FailingElems)
        /\ \A j \in DOMAIN FailingElems :
              LET i == FailingElems[j]
              IN /\ ElemErrors[j].idx = i - 1
                 /\ j = 1 => Below(call.err, 3) = ElemAlone(i).err

\* C3: when Parse into a struct or a slice returns an error, every field and
\* every element has been attempted: each one whose own conversion succeeds
\* holds its converted value, also after a sibling that failed, and each
\* failing element of the slice holds its zero value (stated for the slices
\* whose elements are no pointers).
C3_SiblingsOfAFailureAreAttempted ==
    /\ (StructCall /\ NoFieldPanics /\ call.err # <<>>) =>
          \A i \in DOMAIN Fields(DstType) :
              FieldAlone(i).st = "succeeds" => call.val[i] = FieldAlone(i).val
    /\ (SliceCall /\ NoElemPanics /\ call.err # <<>> /\ Kind(SliceElem(DstType)) # "ptr") =>
          /\ Len(call.val.elems) = Len(Source.v)
          /\ \A i \in DOMAIN Source.v :
                call.val.elems[i] = IF ElemAlone(i).st = "succeeds" THEN ElemAlone(i).val
                                    ELSE Zero(SliceElem(DstType))

\* the letters and digits of a name, the letters in lower case
Folded(name) ==
    LET kept == SelectSeq(name, LAMBDA c : c \in LetterSet \cup DigitSet)
    IN [i \in DOMAIN kept |-> IF kept[i] \in DOMAIN LowerOf THEN LowerOf[kept[i]] ELSE kept[i]]

\* the keys of the source that are the field's name up to case and separators
Matching(f) == {key \in DOMAIN Source.v : Folded(key) = Folded(f.name)}

\* the field loop came to field i: no field before it failed
Reached(i) ==
    \A j \in 1..(i - 1) :
        FieldErrors = <<>> \/ FieldErrors[1].name # Fields(DstType)[j].name

\* field i is what the conversion of the source's value under key makes of it
PopulatedFrom(i, key) ==
    LET f == Fields(DstType)[i]
        r == parseNormalizedSource(Reg, Source.v[key], PtrTo(f.type), TRUE,
                                   call.before[i], "field", call.ord)
    IN /\ call.val[i] = r.val
       /\ IF r.err = <<>>
          THEN FieldErrors = <<>> \/ FieldErrors[1].name # f.name
          ELSE call.err = <<Frame("Parse"), FieldFrame(f.name)>> \o r.err

\* field i is treated as not found in the source
NotFound(i) ==
    LET f == Fields(DstType)[i]
    IN IF "ScanMissingField" \in PtrMethods(f.type.base) /\ f.type.stars = 0
       THEN /\ call.val[i] = Zero(f.type)
            /\ FieldErrors = <<>> \/ FieldErrors[1].name # f.name
       ELSE /\ call.val[i] = call.before[i]
            /\ call.err = <<Frame("Parse"), MissingFrame(f.name)>>

\* C4: a field without a tag is matched up to letter case and separators: a
\* source key whose letters and digits, in lower case, are those of the
\* field's name populates the field, and a key that differs in a digit does
\* not (the field loop having come to the field, and the source holding no
\* empty key).
C4_MatchingIgnoresCaseAndSeparators ==
    StructCall =>
        \A i \in DOMAIN Fields(DstType) :
            LET f == Fields(DstType)[i]
            IN (~f.hasTag /\ Reached(i)) =>
                  IF Matching(f) # {}
                  THEN \E key \in Matching(f) : PopulatedFrom(i, key)
                  ELSE <<>> \notin DOMAIN Source.v => NotFound(i)

C4_Witness ==
    /\ StructCall /\ DstType = T("Person")
    /\ DOMAIN Source.v = {s_first_name, s_last_name}
    /\ call.before = Dirty(DstType)
    /\ call.err = <<>>
    /\ call.val = <<Source.v[s_first_name].v, Source.v[s_last_name].v>>

\* C5: for a field that is not skipped and whose key is not in the source:
\* when the field's storage has ScanMissingField the hook runs and no error is
\* recorded for the field, and otherwise an error 'missing value' is recorded
\* for the field.
C5_MissingFieldToleratedOrReported ==
    (StructCall /\ NoFieldPanics /\ <<>> \notin DOMAIN Source.v) =>
        \A i \in DOMAIN Fields(DstType) :
            LET f == Fields(DstType)[i]
            IN /\ FieldAlone(i).st = "tolerated" =>
                     /\ call.val[i] = Zero(f.type)
                     /\ \A j \in DOMAIN call.err : call.err[j].name # f.name
               /\ FieldAlone(i).st = "missing" =>
                     \E j \in DOMAIN call.err : call.err[j] = MissingFrame(f.name)

\* C6: a field with a tag k is looked up under exactly the key k: it is
\* populated from the value under k when the source holds k, and is otherwise
\* treated as not found, whatever keys like k or like the field's name the
\* source holds (the field loop having come to the field).
C6_TagIsLookedUpLiterally ==
    StructCall =>
        \A i \in DOMAIN Fields(DstType) :
            LET f == Fields(DstType)[i]
            IN (f.hasTag /\ f.tag # s_dash /\ Reached(i)) =>
                  IF f.tag \in DOMAIN Source.v THEN PopulatedFrom(i, f.tag) ELSE NotFound(i)

C6_Witness ==
    /\ StructCall /\ DstType = T("PersonTag")
    /\ DOMAIN Source.v = {s_NAME, s_FirstName}
    /\ call.before = Dirty(DstType)
    /\ call.val = call.before
    /\ call.err = <<Frame("Parse"), MissingFrame(s_FirstName)>>

\* C7: a field with the tag "-" is never assigned and never reported: after
\* Parse it holds what it held before, and no layer of the error names it,
\* whatever the source holds.
C7_ExcludedFieldIsLeftAlone ==
    (call.done /\ call.held /\ call.h.stars = 1 /\ Kind(DstType) = "struct") =>
        \A i \in DOMAIN Fields(DstType) :
            LET f == Fields(DstType)[i]
            IN (f.hasTag /\ f.tag = s_dash) =>
                  /\ call.val[i] = call.before[i]
                  /\ \A j \in DOMAIN call.err : call.err[j].name # f.name

C7_Witness ==
    /\ StructCall /\ DstType = T("PersonSkip")
    /\ DOMAIN Source.v = {s_first_name, s_LastName}
    /\ call.before = Dirty(DstType)
    /\ call.err = <<>>
    /\ call.val = <<Source.v[s_first_name].v, s_bar>>

\* the handler the dispatch order gives a destination handle of type h
Expected(h) ==
    IF h \in DOMAIN Reg THEN "converter"
    ELSE IF h.stars = 1 /\ "StructifyScan" \in PtrMethods(h.base) THEN "StructifyScan"
    ELSE IF h.stars = 1 /\ "Scan" \in PtrMethods(h.base) THEN "Scan"
    ELSE "builtin"

\* C8: every assignment step is handled by exactly one of four, in this
\* order: the converter registered for the destination's type, else
\* StructifyScan, else Scan, else the built-in rule for the kind; a registered
\* converter suppresses the scanners and the built-in rules, and Scan is not
\* called on a type that has both scanners.
C8_DispatchOrder ==
    call.done =>
        /\ \A j \in DOMAIN call.log :
              call.log[j].h # "ScanMissingField" => call.log[j].h = Expected(call.log[j].t)
        /\ (call.held /\ ~call.panic /\ Normalized.status = "ok" /\ call.h.stars = 1) =>
              CASE call.h \in DOMAIN Reg /\ Reg[call.h] = "overridden" ->
                      call.err = <<>> /\ call.val = s_overridden
                [] call.h \in DOMAIN Reg /\ Reg[call.h] = "reject" ->
                      /\ call.err = <<Frame("structify"), Frame("scanner")>>
                      /\ call.val = call.before
                [] call.h \notin DOMAIN Reg
                      /\ DstType.base \in {"testStructifyScanner", "testScanner"} ->
                      call.err = <<>> /\ call.val = Twice(Source)
                [] OTHER -> TRUE

C8_Witness ==
    /\ call.done /\ call.held
    /\ call.h = PtrTo(T("testStructifyScanner"))
    /\ call.h \in DOMAIN Reg
    /\ call.before = Dirty(DstType)
    /\ call.val = call.before
    /\ call.log = <<Step("converter", call.h, "top")>>
    /\ call.err = <<Frame("structify"), Frame("scanner")>>

\* the strings held by the destinations of exactly the type string within a
\* destination of type t that holds v
RECURSIVE StringLeaves(_, _)
StringLeaves(t, v) ==
    CASE t.stars > 0 -> IF v = <<>> THEN {} ELSE StringLeaves(PtrElem(t), v[1])
      [] t = T("string") -> {v}
      [] Kind(t) = "struct" ->
            UNION {StringLeaves(Fields(t)[i].type, v[i]) : i \in DOMAIN Fields(t)}
      [] Kind(t) = "slice" ->
            UNION {StringLeaves(SliceElem(t), v.elems[i]) : i \in DOMAIN v.elems}
      [] OTHER -> {}

\* destinations all of whose strings a Parse without error assigns
AllStrings == {T("string"), PtrTo(T("string")), T("[]string"), T("Person"), T("PersonTag")}

\* C9: the converter registered for a type is invoked for every destination
\* of exactly that type that a Parse reaches (at the top, as a field, as an
\* element, behind a pointer) and for no destination of another type.
C9_ConverterForExactTypeOnly ==
    call.done =>
        /\ \A j \in DOMAIN call.log :
              (call.log[j].h = "converter") <=> (call.log[j].t \in DOMAIN Reg)
        /\ (call.held /\ ~call.panic /\ call.h.stars >= 1) =>
              IF PtrTo(T("string")) \in DOMAIN Reg
              THEN (call.err = <<>> /\ DstType \in AllStrings) =>
                      StringLeaves(DstType, call.val) \subseteq {s_overridden}
              ELSE s_overridden \notin StringLeaves(DstType, call.val)

C9_Witness ==
    /\ call.done /\ call.held /\ call.err = <<>>
    /\ PtrTo(T("string")) \in DOMAIN Reg
    /\ DstType = T("Person")
    /\ call.before = Dirty(DstType)
    /\ call.val = <<s_overridden, s_overridden>>
    /\ Len(SelectSeq(call.log, LAMBDA st : st.h = "converter" /\ st.pos = "field")) = 2

\* the base-10 literals among the sources and the integers they spell
Literals ==
    (s_30 :> 30) @@ (s_7 :> 7) @@ (s_plus7 :> 7) @@ (s_minus7 :> (0 - 7)) @@ (s_300 :> 300)

IsInteger(c) ==
    \/ c.k = "Int"
    \/ c.k = "Float" /\ c.v[2] = 0
    \/ c.k = "String" /\ c.v \in DOMAIN Literals
IntegerOf(c) ==
    CASE c.k = "Int" -> c.v
      [] c.k = "Float" -> c.v[1]
      [] c.k = "String" -> Literals[c.v]
Fractional(c) == c.k = "Float" /\ c.v[2] > 0
Fits(n, t) == Bits(t) >= 32 \/ (0 - 2 ^ (Bits(t) - 1) <= n /\ n < 2 ^ (Bits(t) - 1))

\* the integer destination of type t that held was holds now after the
\* assignment of c, which returned err
IntAssigned(c, t, was, now, err) ==
    /\ (IsInteger(c) /\ Fits(IntegerOf(c), t)) => (now = IntegerOf(c) /\ err = <<>>)
    /\ Fractional(c) => (now = was /\ err = <<Frame("Parse"), Frame("notAnInteger")>>)

OutsideRange(c, t) ==
    \/ IsInteger(c) /\ ~Fits(IntegerOf(c), t)
    \/ c.k = "Float" /\ BeyondInt64(c.v)

\* C11: for a signed integer destination of w bits, a source whose integer
\* value (Int, integer-valued Float, base-10 String) is outside the range of w
\* bits gives the error 'overflows' and leaves the destination unchanged, and
\* on success the destination holds the source's integer (a literal beyond 64
\* bits is the subject of C12).
C11_OutOfRangeIsReportedNeverStored ==
    (BuiltinCall /\ Kind(DstType) = "int") =>
        /\ OutsideRange(Source, DstType) =>
              /\ call.err = <<Frame("Parse"), Frame("overflows")>>
              /\ call.val = call.before
        /\ call.err = <<>> => (IsInteger(Source) /\ call.val = IntegerOf(Source))

\* a base-10 integer literal: an optional sign and one digit or more
WellFormed(s) ==
    LET ds == IF s # <<>> /\ s[1] \in {"+", "-"} THEN Tail(s) ELSE s
    IN ds # <<>> /\ \A i \in DOMAIN ds : ds[i] \in DigitSet

\* the literals of the model that no int64 holds
Beyond64Bits == {s_1e19}

\* C12: a String assigned to a signed integer destination fails with an error
\* that tells the cause: 'cannot assign' (no conversion to an integer) for a
\* string that is no well-formed base-10 literal, and 'overflows' (out of
\* range) for a well-formed literal beyond the destination's width or beyond
\* 64 bits.
C12_StringErrorTellsSyntaxFromRange ==
    (BuiltinCall /\ Kind(DstType) = "int" /\ Source.k = "String") =>
        /\ ~WellFormed(Source.v) =>
              call.err = <<Frame("Parse"), Frame("cannotAssign")>>
        /\ (WellFormed(Source.v)
            /\ (Source.v \in Beyond64Bits \/ ~Fits(Literals[Source.v], DstType))) =>
              call.err = <<Frame("Parse"), Frame("overflows")>>

\* the built-in rule for a destination of type t does not accept the shape of
\* the canonical value c
Rejected(c, t) ==
    CASE Kind(t) = "bool" -> c.k # "Bool"
      [] Kind(t) \in {"string", "int", "uint", "float"} ->
            c.k \in {"Bool", "Map", "Seq", "Nil"}
      [] Kind(t) = "struct" -> c.k # "Map"
      [] Kind(t) = "slice" -> c.k # "Seq"
      [] OTHER -> FALSE

\* field i is handled by the built-in rule for its kind
BuiltinField(i) ==
    LET f == Fields(DstType)[i]
    IN /\ PtrTo(f.type) \notin DOMAIN Reg
       /\ f.type.stars = 0
       /\ PtrMethods(f.type.base) \cap {"StructifyScan", "Scan"} = {}

\* C13: a canonical value of a shape the destination's built-in rule does not
\* accept (anything but Bool into a bool; Bool, Mapping, Sequence or Absent
\* into a string or a number; anything but Mapping into a struct; anything but
\* Sequence into a slice) is rejected with 'cannot assign' and the destination
\* holds what it held before the call.  This holds at the top level and for
\* a field.
C13_UnacceptedShapeIsRejected ==
    /\ (BuiltinCall /\ Rejected(Source, DstType)) =>
          /\ call.err = <<Frame("Parse"), Frame("cannotAssign")>>
          /\ call.val = call.before
    /\ StructCall =>
          \A i \in DOMAIN Fields(DstType) :
              LET f == Fields(DstType)[i]
              IN (~f.hasTag /\ f.exported /\ Reached(i) /\ BuiltinField(i)) =>
                    \A key \in Matching(f) :
                        (Matching(f) = {key} /\ Rejected(Source.v[key], f.type)) =>
                            /\ call.val[i] = call.before[i]
                            /\ call.err = <<Frame("Parse"), FieldFrame(f.name),
                                            Frame("Parse"), Frame("cannotAssign")>>

C13_Witness ==
    /\ BuiltinCall /\ DstType = T("string")
    /\ Source = CBool(TRUE)
    /\ call.before = Dirty(DstType)
    /\ call.val = s_bar
    /\ call.err = <<Frame("Parse"), Frame("cannotAssign")>>

\* the destination is a pointer and the built-in rule for pointers handled it
PointerCall ==
    /\ call.done /\ call.held /\ ~call.panic
    /\ call.h.stars = 2
    /\ call.h \notin DOMAIN Reg
    /\ Normalized.status = "ok"

\* what the conversion of c into fresh storage of type t comes to
IntoFresh(c, t) ==
    parseNormalizedSource(Reg, c, PtrTo(t), TRUE, Zero(t), "ptr", call.ord)

\* C14: a pointer destination given Absent is nil afterwards, whatever it
\* referred to before; given any other value it refers to fresh storage that
\* holds the conversion of the value, and Parse fails exactly when that
\* conversion fails, with its error; a slice of pointers has nil exactly at
\* the indices where the source is nil.
C14_PointerIsNilOrFreshStorage ==
    /\ PointerCall =>
          IF Source = CNil
          THEN call.err = <<>> /\ call.val = <<>>
          ELSE LET inner == IntoFresh(Source, PtrElem(DstType))
               IN /\ call.val = <<inner.val>>
                  /\ call.err = IF inner.err = <<>> THEN <<>>
                                ELSE <<Frame("Parse")>> \o inner.err
    /\ (PointerCall /\ DstType = PtrTo(T("string")) /\ Source.k = "String"
        /\ PtrTo(T("string")) \notin DOMAIN Reg) =>
          call.err = <<>> /\ call.val = <<Source.v>>
    /\ (SliceCall /\ Kind(SliceElem(DstType)) = "ptr" /\ call.err = <<>>) =>
          \A i \in DOMAIN Source.v :
              IF Source.v[i] = CNil THEN call.val.elems[i] = <<>>
              ELSE call.val.elems[i] = <<IntoFresh(Source.v[i], PtrElem(SliceElem(DstType))).val>>

C14_Witness ==
    /\ SliceCall /\ DstType = T("[]*float64")
    /\ call.src = Raw("[]any", <<Raw("float64", <<11, 1>>), RawNil>>)
    /\ call.err = <<>>
    /\ call.val = [isnil |-> FALSE, elems |-> << <<<<11, 1>>>>, <<>> >>]

\* the destination is an empty interface that the built-in rule handles
AnyCall ==
    /\ call.done /\ call.held
    /\ call.h = PtrTo(T("any"))
    /\ call.h \notin DOMAIN Reg
    /\ Normalized.status = "ok"

\* C15: Parse into a destination of type any succeeds for every canonical
\* value (String, Int, Float, Bool, Mapping, Sequence and Absent), and the
\* destination then holds exactly the canonical value: nil for Absent, the
\* generic map and the generic list at every depth.
C15_AnyTakesEveryCanonicalValue ==
    AnyCall =>
        /\ ~call.panic
        /\ call.err = <<>>
        /\ call.val = IF Source = CNil THEN <<>> ELSE <<Source>>

\* the fields of the destination that are Optional wrappers
IsOptional(f) == f.type = T("Optional[string]")

\* the wrapper that holds the zero value of the wrapped type and is present
PresentZero == <<Zero(T("string")), TRUE>>

\* C16: a field of type Optional: when the source holds no key that matches
\* it, no error is recorded for the field and the wrapper is in its
\* not-present state (zero value, Present false) whatever it held before; when
\* the source holds a matching key with the zero value of the wrapped type, no
\* error is recorded for the field and the wrapper is present with that value,
\* which differs from the not-present state (the field loop having come to
\* the field, and the source holding no empty key).
C16_OptionalAbsentDiffersFromZero ==
    (StructCall /\ <<>> \notin DOMAIN Source.v) =>
        \A i \in DOMAIN Fields(DstType) :
            LET f == Fields(DstType)[i]
            IN (IsOptional(f) /\ ~f.hasTag /\ Reached(i)) =>
                  /\ Matching(f) = {} =>
                        /\ call.val[i] = Zero(f.type)
                        /\ \A j \in DOMAIN call.err : call.err[j].name # f.name
                  /\ (\E key \in Matching(f) :
                         Matching(f) = {key} /\ Source.v[key] = CStr(Zero(T("string")))) =>
                        /\ call.val[i] = PresentZero
                        /\ call.val[i] # Zero(f.type)
                        /\ \A j \in DOMAIN call.err : call.err[j].name # f.name

CanonicalKinds == {"String", "Int", "Float", "Bool", "Map", "Seq", "Nil"}

\* c is made of canonical shapes only, at every depth
RECURSIVE Canonical(_)
Canonical(c) ==
    /\ DOMAIN c = {"k", "v"}
    /\ c.k \in CanonicalKinds
    /\ CASE c.k = "Map" -> \A key \in DOMAIN c.v : Canonical(c.v[key])
         [] c.k = "Seq" -> \A i \in DOMAIN c.v : Canonical(c.v[i])
         [] c.k = "Float" -> Len(c.v) = 2
         [] c.k = "Bool" -> c.v \in BOOLEAN
         [] OTHER -> TRUE

\* the canonical shape a supported source type comes to
ShapeOf(k) ==
    CASE k = "string" -> {"String"}
      [] k \in {"int", "int8", "int16", "int32", "int64"} -> {"Int"}
      [] k \in {"float32", "float64"} -> {"Float"}
      [] k = "bool" -> {"Bool"}
      [] k \in {"map[string]any", "map[string]string"} -> {"Map"}
      [] k \in {"[]any", "[]int32", "[]string", "[]uint8"} -> {"Seq"}
      [] OTHER -> CanonicalKinds

\* C17: whenever normalization succeeds its result is made of canonical
\* shapes only, at every depth: String, Int, Float, Bool, the generic Mapping,
\* the generic Sequence and Absent; a narrower integer or float is widened and
\* a typed map or slice, also within a container, becomes the generic one.
C17_NormalizedIsCanonical ==
    (call.done /\ Normalized.status = "ok") =>
        /\ Canonical(Source)
        /\ Source.k \in ShapeOf(call.src.k)
        /\ (AnyCall /\ Source # CNil) => call.val = <<Source>>

C17_Witness ==
    /\ AnyCall
    /\ call.src = Raw("[]int32", <<Raw("int32", 30), Raw("int32", 7)>>)
    /\ call.val = <<CSeq(<<CInt(30), CInt(7)>>)>>

\* the source types normalizeSource has no case for
UnsupportedKinds == {"uint8", "struct", "*int", "map[string]int"}

\* the source holds, at the top or within its containers, a value of an
\* unsupported type
RECURSIVE Unsupported(_)
Unsupported(raw) ==
    \/ raw.k \in UnsupportedKinds
    \/ /\ raw.k \in {"map[string]any", "[]any", "[]uint8"}
       /\ \E x \in DOMAIN raw.v : Unsupported(raw.v[x])

\* C18: a source that holds an unsigned integer or another value outside the
\* supported source types, at the top or within a mapping or a sequence,
\* makes Parse return the error 'unsupported source type', and the
\* destination holds what it held before.
C18_UnsupportedSourceIsAnError ==
    (call.done /\ Unsupported(call.src)) =>
        /\ ~call.panic
        /\ call.err = <<Frame("structify"), Frame("unsupportedSourceType")>>
        /\ call.val = call.before

\* the untyped nil and the typed handles that hold nothing
EmptyHandleKinds ==
    {"nil", "nil *int", "nil map[string]int", "nil map[string]any", "nil []any",
     "nil []int32"}

\* what Parse of the untyped nil into the destination of the last call gives
ParseOfNil ==
    ParserParse(Reg, RawNil, call.h, call.held, call.before, call.ord)

\* C19: the untyped nil and every typed handle that holds nothing (a nil
\* pointer, a nil map, a nil slice) normalize to the one Absent value, so that
\* the assigner cannot tell them apart: Parse of any of them ends as Parse of
\* the untyped nil into the same destination does, with the same error and
\* the same contents (stated for the destinations into which Parse of nil
\* returns).
C19_EmptyHandlesAreAbsent ==
    (call.done /\ call.src.k \in EmptyHandleKinds /\ ~ParseOfNil.panic) =>
        /\ ~call.panic
        /\ call.err = ParseOfNil.err
        /\ call.val = ParseOfNil.val

\* C20: for every source and every pointer destination that holds storage
\* Parse returns, with nil or with an error: it never panics (stated apart
\* from the panics of C15 and C18: for the sources of supported types and the
\* destinations other than any).
C20_ParseNeverPanics ==
    (call.done /\ call.held /\ call.h.stars >= 1
     /\ ~Unsupported(call.src) /\ DstType # T("any")) =>
        ~call.panic

\* the destination handle is no pointer, or it is a pointer that holds nothing
InvalidDestination == call.done /\ (call.h.stars = 0 \/ ~call.held)

\* C21: Parse with a destination that is not a pointer, or that is a nil
\* pointer, returns an error that says so for every source it can normalize,
\* assigns nothing, and invokes no registered function and no scanner.
C21_InvalidDestinationIsRejected ==
    (InvalidDestination /\ Normalized.status = "ok") =>
        /\ ~call.panic
        /\ call.err \in {<<Frame("notPointer")>>, <<Frame("nilDst")>>}
        /\ call.val = call.before
        /\ \A j \in DOMAIN call.log : call.log[j].h = "builtin"

\* the field of the destination struct that holds a slice of players, and the
\* sequence the source has for it
PlayersField == CHOOSE i \in DOMAIN Fields(DstType) : Kind(Fields(DstType)[i].type) = "slice"
PlayersSource == Source.v[s_players].v
TeamCall ==
    /\ StructCall /\ call.err = <<>>
    /\ DstType \in TeamTypes
    /\ s_players \in DOMAIN Source.v /\ Source.v[s_players].k = "Seq"

\* what source element c comes to in fresh storage of type t
Converted(c, t) ==
    parseNormalizedSource(Reg, c, PtrTo(t), TRUE, Zero(t), "elem", call.ord).val

\* C22: after a Parse of a sequence of length n into a slice that succeeds,
\* the destination has exactly n elements whatever it held before, and element
\* i is what source element i converts to; the same for a slice of structs
\* and a slice of pointers to structs that is a field of a struct.
C22_SliceHasTheLengthAndOrderOfTheSource ==
    /\ (SliceCall /\ call.err = <<>>) =>
          /\ ~call.val.isnil
          /\ Len(call.val.elems) = Len(Source.v)
          /\ \A i \in DOMAIN Source.v :
                /\ call.val.elems[i] = Converted(Source.v[i], SliceElem(DstType))
                /\ (DstType = T("[]string") /\ Source.v[i].k = "String"
                                              /\ PtrTo(T("string")) \notin DOMAIN Reg) =>
                      call.val.elems[i] = Source.v[i].v
    /\ TeamCall =>
          LET players == call.val[PlayersField]
              elem == SliceElem(Fields(DstType)[PlayersField].type)
          IN /\ Len(players.elems) = Len(PlayersSource)
             /\ \A i \in DOMAIN PlayersSource :
                   LET m == PlayersSource[i].v
                       player == <<m[s_name].v, m[s_number].v>>
                   IN /\ players.elems[i] = Converted(PlayersSource[i], elem)
                      /\ PtrTo(T("string")) \notin DOMAIN Reg =>
                            players.elems[i] = IF Kind(elem) = "ptr" THEN <<player>>
                                               ELSE player

\* a team that held one player took two different players in the order of the
\* source
C22_Witness ==
    /\ TeamCall /\ DstType = T("TeamP")
    /\ Len(call.before[PlayersField].elems) = 1
    /\ Len(PlayersSource) = 2 /\ PlayersSource[1] # PlayersSource[2]

\* Parse returned success for a destination that holds storage
Succeeded ==
    /\ call.done /\ call.held /\ ~call.panic /\ call.err = <<>>
    /\ Normalized.status = "ok"

\* the keys of mapping m that resolve to field f: the tag, or the keys that
\* are the field's name up to case and separators
Resolving(f, m) ==
    IF f.hasTag THEN {f.tag} \cap DOMAIN m
    ELSE {key \in DOMAIN m : Folded(key) = Folded(f.name)}

\* storage of type t that held cur holds v after source c was processed for
\* it: a registered function or a scanner took c, or every field and every
\* element of it was processed in turn
RECURSIVE Populated(_, _, _, _)
Populated(c, t, cur, v) ==
    LET whole == parseNormalizedSource(Reg, c, PtrTo(t), TRUE, cur, "top", call.ord)
    IN IF Handler(Reg, PtrTo(t)) # "builtin" THEN v = whole.val
       ELSE CASE Kind(t) = "struct" /\ c.k = "Map" ->
                    \A i \in DOMAIN Fields(t) :
                        LET f == Fields(t)[i]
                        IN \/ f.hasTag /\ f.tag = s_dash
                           \/ \E key \in Resolving(f, c.v) :
                                 Populated(c.v[key], f.type, cur[i], v[i])
                           \/ /\ Resolving(f, c.v) = {}
                              /\ "ScanMissingField" \in MethodSet(PtrTo(f.type))
                              /\ v[i] = Zero(f.type)
              [] Kind(t) = "slice" /\ c.k = "Seq" ->
                    /\ Len(v.elems) = Len(c.v)
                    /\ \A i \in DOMAIN c.v :
                          Populated(c.v[i], SliceElem(t), Zero(SliceElem(t)), v.elems[i])
              [] Kind(t) = "ptr" /\ c.k # "Nil" ->
                    /\ v # <<>>
                    /\ Populated(c, PtrElem(t), Zero(PtrElem(t)), v[1])
              [] OTHER -> v = whole.val

\* the fields of the destination struct for which the source has no key
Unresolved ==
    {i \in DOMAIN Fields(DstType) :
        LET f == Fields(DstType)[i]
        IN ~(f.hasTag /\ f.tag = s_dash) /\ Resolving(f, Source.v) = {}}

Failed ==
    /\ call.done /\ call.held /\ ~call.panic /\ call.err # <<>>
    /\ Normalized.status = "ok"

\* what source c comes to in fresh storage of type t
Attempt(c, t) == parseNormalizedSource(Reg, c, PtrTo(t), TRUE, Zero(t), "top", call.ord)

\* the field names and indices an error holds, outermost first
PathOf(err) == SelectSeq(err, LAMBDA e : e.f \in {"field", "missingValue", "index"})

\* error err leads from source c and type t to a leaf that fails: each field
\* frame names a field of the struct at that place and each index frame an
\* index of the sequence at that place, and what remains at the leaf is the
\* cause for which the leaf's own conversion fails
RECURSIVE PathValid(_, _, _)
PathValid(err, c, t) ==
    IF err = <<>> THEN FALSE
    ELSE IF Handler(Reg, PtrTo(t)) # "builtin" THEN err = Attempt(c, t).err
    ELSE LET rest == IF err[1] = Frame("Parse") THEN Tail(err) ELSE <<>>
             e == IF rest = <<>> THEN Frame("none") ELSE rest[1]
         IN CASE e.f = "field" ->
                    /\ Kind(t) = "struct" /\ c.k = "Map"
                    /\ \E i \in DOMAIN Fields(t) :
                          /\ Fields(t)[i].name = e.name
                          /\ \E key \in Resolving(Fields(t)[i], c.v) :
                                PathValid(Tail(rest), c.v[key], Fields(t)[i].type)
              [] e.f = "missingValue" ->
                    /\ Kind(t) = "struct" /\ c.k = "Map" /\ Len(rest) = 1
                    /\ \E i \in DOMAIN Fields(t) :
                          /\ Fields(t)[i].name = e.name
                          /\ Resolving(Fields(t)[i], c.v) = {}
              [] e.f = "index" ->
                    /\ Kind(t) = "slice" /\ c.k = "Seq"
                    /\ e.idx + 1 \in DOMAIN c.v
                    /\ PathValid(Tail(rest), c.v[e.idx + 1], SliceElem(t))
              [] OTHER ->
                    IF Kind(t) = "ptr" /\ c.k # "Nil" THEN PathValid(rest, c, PtrElem(t))
                    ELSE /\ ~(Kind(t) = "struct" /\ c.k = "Map")
                         /\ ~(Kind(t) = "slice" /\ c.k = "Seq")
                         /\ err = Attempt(c, t).err

\* the number of the second player is no integer, in a team whose name and
\* first player convert
SecondPlayersNumberFails ==
    /\ Failed /\ StructCall /\ DstType \in TeamTypes
    /\ s_name \in DOMAIN Source.v /\ Source.v[s_name].k = "String"
    /\ s_players \in DOMAIN Source.v /\ Len(PlayersSource) = 2
    /\ PlayersSource[1].v = (s_name :> CStr(s_Jack) @@ s_number :> CInt(30))
    /\ PlayersSource[2].v = (s_name :> CStr(s_Jo) @@ s_number :> CStr(s_bar))

\* C24: the error Parse returns for a failure at a nested place holds the
\* complete path from the root to the failing leaf, every enclosing field
\* name and index with the outermost first, and ends in the cause for which
\* that leaf fails: players[1].number for the number of the second player
\* (the source holding no empty key).
C24_ErrorHoldsThePathToTheLeaf ==
    /\ (Failed /\ (Source.k = "Map" => s_empty \notin DOMAIN Source.v)) =>
          PathValid(call.err, Source, DstType)
    /\ SecondPlayersNumberFails =>
          /\ PathOf(call.err)
                = <<FieldFrame(s_Players), IndexFrame(1), FieldFrame(s_Number)>>
          /\ call.err[Len(call.err)] \notin {Frame("Parse"), Frame("structify")}

C24_Witness == SecondPlayersNumberFails /\ DstType = T("TeamP")

\* C25: a field without a tag is only assigned from a source key whose
\* normalized form is the field's normalized name; when the source has no
\* such key the field is treated as not found, whatever other keys the source
\* holds, the empty key among them.
C25_UntaggedFieldOnlyFromItsOwnKey ==
    StructCall =>
        \A i \in DOMAIN Fields(DstType) :
            LET f == Fields(DstType)[i]
            IN (~f.hasTag /\ Reached(i)) =>
                  IF Matching(f) = {} THEN NotFound(i)
                  ELSE \E key \in Matching(f) : PopulatedFrom(i, key)

\* what the same call comes to when the range over the source mapping takes
\* the keys in order ord
Rerun(ord) == ParserParse(Reg, call.src, call.h, call.held, call.before, ord)

\* C26: Parse is deterministic: a second run with the same source, the same
\* destination type and contents and the same registry ends with the same
\* error and the same destination, also when several keys of the source
\* mapping normalize to the same name.
C26_ParseIsDeterministic ==
    call.done =>
        \A ord \in Orders(call.src) :
            /\ Rerun(ord).err = call.err
            /\ Rerun(ord).val = call.val
            /\ Rerun(ord).panic = call.panic

\* canonical value c as the Go value it is, handed to Parse as a source
RECURSIVE Embed(_)
Embed(c) ==
    CASE c.k = "String" -> Raw("string", c.v)
      [] c.k = "Int" -> Raw("int64", c.v)
      [] c.k = "Float" -> Raw("float64", c.v)
      [] c.k = "Bool" -> Raw("bool", c.v)
      [] c.k = "Map" -> Raw("map[string]any", [key \in DOMAIN c.v |-> Embed(c.v[key])])
      [] c.k = "Seq" -> Raw("[]any", [i \in DOMAIN c.v |-> Embed(c.v[i])])
      [] c.k = "Nil" -> RawNil

\* the call's source was normalized
NormalizedCall == call.done /\ Normalized.status = "ok"

\* what the revision that recurses through Parse makes of the call
PerStep == ParsePerStep(call.src, call.h, call.held, call.before, call.ord)

\* both revisions accept the call, and no scanner and no registered function,
\* which the revision that recurses through Parse does not know, took part
BothAccept ==
    /\ NormalizedCall /\ call.held /\ ~call.panic /\ call.err = <<>>
    /\ \A j \in DOMAIN call.log : call.log[j].h = "builtin"
    /\ ~PerStep.panic /\ PerStep.err = <<>>

\* C27: normalization is idempotent: a normalized source is a fixed point of
\* normalizeSource, and the engine that normalizes once and the one that
\* normalizes at every step of the recursion leave the same destination for
\* every input both accept.
C27_NormalizingAgainChangesNothing ==
    /\ NormalizedCall => normalizeSource(Embed(Source), call.ord) = NOk(Source)
    /\ BothAccept => PerStep.val = call.val

\* both engines took a team of two players, a mapping in a sequence in a
\* mapping, whose numbers are of type int
C27_Witness ==
    /\ BothAccept /\ TeamCall /\ DstType = T("Team")
    /\ Len(PlayersSource) = 2 /\ PlayersSource[1] # PlayersSource[2]
    /\ call.before = Dirty(DstType)

Consulted ==
    (call.done /\ Normalized.status = "ok") =>
        IF call.h \in DOMAIN Reg
        THEN LET o == Wrap(Frame("structify"),
                           TypeScannerFunc(Reg[call.h], Source, call.h, call.before,
                                           call.held))
             IN /\ call.log = <<Step("converter", call.h, "top")>>
                /\ call.err = o.err /\ call.val = o.val /\ call.panic = o.panic
        ELSE \A j \in DOMAIN call.log : call.log[j].h = "converter" =>
                call.log[j].t \in DOMAIN Reg /\ call.log[j].t # call.h

\* the step registers fn for type h on parser p: that entry becomes fn, every
\* other entry of p and every other parser stay as they are
Registers(p, h, fn) ==
    /\ h \in DOMAIN typeScannerFuncs'[p].m
    /\ typeScannerFuncs'[p].m[h] = fn
    /\ DOMAIN typeScannerFuncs'[p].m = DOMAIN typeScannerFuncs[p].m \cup {h}
    /\ \A x \in DOMAIN typeScannerFuncs[p].m \ {h} :
          typeScannerFuncs'[p].m[x] = typeScannerFuncs[p].m[x]
    /\ \A q \in Parsers \ {p} : typeScannerFuncs'[q] = typeScannerFuncs[q]

\* C29: through every sequence of RegisterTypeScanner and Parse calls on the
\* parsers, the function consulted for a destination type is the one that was
\* registered last for exactly that type on that parser, none if there was
\* none: a registration changes the entry of its type on its parser and no
\* other entry and no other parser, Parse changes no registry, and Parse
\* consults the entry of the destination's type in its own parser's registry.
C29_RegistryPerParserAndType ==
    [][/\ typeScannerFuncs' # typeScannerFuncs =>
             /\ call' = call
             /\ \E p \in Parsers, r \in Registrations : Registers(p, r.h, r.fn)
       /\ call' # call => typeScannerFuncs' = typeScannerFuncs
       /\ Consulted']_vars

\* the first parser's entry for *string was registered twice, the second
\* parser has none, and Parse on the first consulted the entry
C29_Witness ==
    /\ nregs = 2
    /\ typeScannerFuncs["p1"].m = (PtrTo(T("string")) :> "reject")
    /\ typeScannerFuncs["p2"].isnil
    /\ call.done /\ call.p = "p1" /\ call.h = PtrTo(T("string")) /\ call.held
    /\ call.err = <<Frame("structify"), Frame("scanner")>>

(***************************************************************************)
(* The recursion of parseNormalizedSource, call by call.  Each entry of    *)
(* stack is one call that has not returned: its source, the type of its    *)
(* destination handle, and how many of the calls it makes it has made.     *)
(* The Go runtime ends the process when the stack outgrows its limit;      *)
(* MaxDepth stands for that limit.  The text an error gathers on the way   *)
(* up is left out here: the error is the cause.                            *)
(***************************************************************************)
\* the storage a handle of type h refers to
Deref(h) == IF h.stars > 0 THEN PtrElem(h) ELSE TypeDef(h.base).elem

Activation(src, h) == [src |-> src, h |-> h, at |-> 0]
Callee(src, h) == [stop |-> "no", name |-> <<>>, src |-> src, h |-> h]
Stop(why, name) == [stop |-> why, name |-> name, src |-> CNil, h |-> NoType]

RECURSIVE Concat(_)
Concat(ss) == IF ss = <<>> THEN <<>> ELSE Head(ss) \o Concat(Tail(ss))

\* the calls of parseNormalizedSource that the call for src and h makes, in
\* their order, and where it stops for a field it cannot set
Callees(src, h) ==
    LET t == Deref(h)
        index == NameIndex(src.v, AllKeys)
        OfField(i) ==
            LET f == Fields(t)[i]
                fk == FieldKey(f, index)
            IN IF fk.skip THEN <<>>
               ELSE IF ~f.exported THEN <<Stop("panic", f.name)>>
               ELSE IF fk.key \in DOMAIN src.v
               THEN <<Callee(src.v[fk.key], PtrTo(f.type))>>
               ELSE IF "ScanMissingField" \in MethodSet(PtrTo(f.type)) THEN <<>>
               ELSE <<Stop("missing", f.name)>>
    IN IF Handler(typeScannerFuncs["p1"].m, h) # "builtin" THEN <<>>
       ELSE CASE Kind(t) = "struct" /\ src.k = "Map" ->
                    Concat([i \in DOMAIN Fields(t) |-> OfField(i)])
              [] Kind(t) = "slice" /\ src.k = "Seq" ->
                    [i \in DOMAIN src.v |-> Callee(src.v[i], PtrTo(SliceElem(t)))]
              [] Kind(t) = "ptr" /\ src.k # "Nil" -> <<Callee(src, t)>>
              [] OTHER -> <<>>

\* what a call that makes no further call comes to
Own(a) ==
    IF Kind(Deref(a.h)) = "ptr" THEN Out(<<>>, <<>>, <<>>, FALSE)
    ELSE parseNormalizedSource(typeScannerFuncs["p1"].m, a.src, a.h, TRUE,
                               Zero(Deref(a.h)), "top", AllKeys)

\* self-referential destination types and sources for them, and destinations
\* of the tests
NodeSources ==
    {Raw("map[string]any", (s_next :> RawNil)),
     Raw("map[string]any", (s_next :> Raw("map[string]any", (s_next :> RawNil)))),
     Raw("map[string]any", (s_next :> Raw("map[string]any", <<>>))),
     Raw("map[string]any", (s_next :> RStr(s_Jack))),
     Raw("map[string]any", <<>>)}

DescentInputs ==
    {Held(s, t) : s \in {RStr(s_Jack), RStr(s_30), Raw("int", 30), RawNil},
                  t \in {T("string"), T("int32"), PtrTo(T("string")),
                         PtrTo(PtrTo(T("int32"))), T("testScanner"), T("P")}}
    \cup {Held(s, t) : s \in NodeSources, t \in {T("Node"), PtrTo(T("Node")), T("P")}}
    \cup {Held(s, t) : s \in PlayerMaps, t \in {T("Player"), PtrTo(T("Player"))}}
    \cup {Held(Raw("[]any", q), t) :
              q \in SeqsOver(PlayerMaps), t \in {T("[]Player"), T("[]*Player")}}

\* a Parse call is under way
Running == call.held /\ ~call.done /\ ~call.panic

Top == stack[Len(stack)]
TopCallees == Callees(Top.src, Top.h)
\* the top call has a further call to make
Calls == Top.at < Len(TopCallees) /\ TopCallees[Top.at + 1].stop = "no"

\* Parser.Parse(src, dst) normalizes the source and calls parseNormalizedSource
DescentCall(i) ==
    /\ call = NoCall /\ stack = <<>>
    /\ normalizeSource(i.src, AllKeys).status = "ok"
    /\ call' = [NoCall EXCEPT !.src = i.src, !.h = i.h, !.held = TRUE]
    /\ stack' = <<Activation(normalizeSource(i.src, AllKeys).val, i.h)>>
    /\ UNCHANGED <<typeScannerFuncs, nregs>>

\* the top call calls parseNormalizedSource for a field, an element or what
\* a pointer refers to
Descend ==
    /\ Running /\ stack # <<>> /\ call.err = <<>>
    /\ Calls
    /\ Len(stack) < MaxDepth
    /\ stack' = [stack EXCEPT ![Len(stack)].at = @ + 1]
                  \o <<Activation(TopCallees[Top.at + 1].src, TopCallees[Top.at + 1].h)>>
    /\ UNCHANGED <<typeScannerFuncs, nregs, call>>

\* the call does not fit on the stack: fatal error: stack overflow, and the
\* process ends without Parse having returned
StackOverflow ==
    /\ Running /\ stack # <<>> /\ call.err = <<>>
    /\ Calls
    /\ Len(stack) = MaxDepth
    /\ call' = [call EXCEPT !.panic = TRUE, !.err = <<Frame("stackOverflow")>>]
    /\ UNCHANGED <<typeScannerFuncs, nregs, stack>>

\* the top call returns: with the error of the call it made, with its own
\* outcome, or at a field it cannot set; Parse returns with the first call
ReturnUp ==
    /\ Running /\ stack # <<>>
    /\ call.err # <<>> \/ ~Calls
    /\ LET o == IF call.err # <<>> THEN Out(call.err, <<>>, <<>>, FALSE)
                ELSE IF TopCallees = <<>> THEN Own(Top)
                ELSE IF Top.at = Len(TopCallees) THEN Out(<<>>, <<>>, <<>>, FALSE)
                ELSE IF TopCallees[Top.at + 1].stop = "missing"
                THEN Out(<<MissingFrame(TopCallees[Top.at + 1].name)>>, <<>>, <<>>, FALSE)
                ELSE Out(<<>>, <<>>, <<>>, TRUE)
       IN /\ stack' = IF o.panic THEN <<>> ELSE SubSeq(stack, 1, Len(stack) - 1)
          /\ call' = [call EXCEPT !.err = o.err, !.panic = o.panic,
                                  !.done = o.panic \/ Len(stack) = 1]
    /\ UNCHANGED <<typeScannerFuncs, nregs>>

DescentNext ==
    \/ \E i \in DescentInputs : DescentCall(i)
    \/ Descend
    \/ StackOverflow
    \/ ReturnUp
    \/ Return

\* a call that is under way goes on
DescentSpec ==
    Init /\ [][DescentNext]_vars /\ WF_vars(Descend \/ StackOverflow \/ ReturnUp)

\* the process has ended in a stack overflow
Fatal == call.panic /\ ~call.done

\* the stack is exhausted for no destination type but the pointer to itself
OnlyPOverflows == Fatal => call.h = PtrTo(T("P")) /\ call.src # RawNil

\* C30: for every finite source and every destination type, the types that
\* refer to themselves through a pointer among them, Parse terminates: a call
\* that is under way comes to return, success or error.
C30_ParseTerminates == Running ~> call.done

====
